---- MODULE Spec2Model ----
(***************************************************************************)
(* A model of the analysis pipeline of debug-ai: the log parser            *)
(* (ingestion/parser.py), the engine that drives it (core/engine.py), the  *)
(* analyzer (core/analyzer.py), the error correlator                       *)
(* (analysis/correlator.py) and the timeline builder                       *)
(* (analysis/timeline_builder.py).                                         *)
(*                                                                         *)
(* Text is modelled as a sequence of tokens.  A token is a string that the *)
(* regular expressions of the code treat as a unit: a timestamp literal, a *)
(* level word, an ordinary word, a blank, a punctuation sign.  The text a  *)
(* sequence stands for is the concatenation of its tokens, so two word     *)
(* tokens side by side have no word boundary between them.                 *)
(***************************************************************************)
EXTENDS Integers, Sequences, FiniteSets, TLC

VARIABLES
    entry,          \* LogParser.parse: the raw entry handed to parse
    parsed,         \* LogParser.parse: what the call produced
    lines,          \* the raw entries an ingester still has to hand over
    _parsed_logs,   \* DebugEngine._parsed_logs
    _errors,        \* DebugEngine._errors
    _error_index,   \* DebugEngine._error_index
    engine_exc,     \* the exception the last engine call ended with
    errors,         \* the batch handed to a batch operation
    call,           \* the batch operation that ran last
    result,         \* what the batch operation returned or raised
    msg,            \* PatternAnalyzer._normalize_message: its argument
    template,       \* what _normalize_message made of msg
    retemplate,     \* what _normalize_message made of template
    time_str,       \* TimelineBuilder._parse_time_delta: its argument
    delta,          \* what _parse_time_delta returned or raised
    source,         \* the source an ingestion adapter is asked to read
    ingested,       \* what the adapter returned, yielded or raised
    workers,        \* stress test: each parsing thread's local state
    lock,           \* stress test: the thread holding the lock, or 0
    thread_results, \* stress test: the shared results list
    thread_errors,  \* stress test: the shared errors list
    db_events,      \* Database: the rows of the events table, in rowid order
    crash,          \* TimelineBuilder.trace_crash: the error it is asked about
    traced,         \* what trace_crash returned or raised
    batch_size,     \* streaming ingestion: the size of a batch
    pending,        \* streaming ingestion: the input lines not yet read
    buffer,         \* streaming ingestion: the batch being filled
    batches,        \* streaming ingestion: the batches yielded so far
    exhausted       \* streaming ingestion: the generator has returned

vars == <<entry, parsed, lines, _parsed_logs, _errors, _error_index,
          engine_exc, errors, call, result, msg, template, retemplate,
          time_str, delta, source, ingested, workers, lock, thread_results,
          thread_errors, db_events, crash, traced, batch_size, pending, buffer,
          batches, exhausted>>

parserVars == <<entry, parsed>>
engineVars == <<lines, _parsed_logs, _errors, _error_index, engine_exc>>
batchVars == <<errors, call, result>>
normVars == <<msg, template, retemplate>>
deltaVars == <<time_str, delta>>
ingestVars == <<source, ingested>>
threadVars == <<workers, lock, thread_results, thread_errors>>
crashVars == <<db_events, crash, traced>>
streamVars == <<batch_size, pending, buffer, batches, exhausted>>
auxVars == <<normVars, deltaVars, ingestVars, threadVars, crashVars, streamVars>>

-----------------------------------------------------------------------------
(* Bounds of the model. *)

MaxRawLen == 3      \* tokens in a raw text line
MaxJsonFields == 2  \* fields of a JSON log line
MaxLines == 3       \* raw entries an engine is fed over its life
MaxBatch == 3       \* entries in a batch handed to a batch operation

-----------------------------------------------------------------------------
(* Generic helpers. *)

SeqsUpTo(S, n) == UNION {[1..k -> S] : k \in 0..n}

Range(s) == {s[i] : i \in DOMAIN s}

\* The subsequence of s at the positions that are not in drop.
RECURSIVE DropAt(_, _, _)
DropAt(s, drop, i) ==
    IF i > Len(s) THEN <<>>
    ELSE (IF i \in drop THEN <<>> ELSE <<s[i]>>) \o DropAt(s, drop, i + 1)

-----------------------------------------------------------------------------
(* Python values.  Every value of a field has the same record shape, so    *)
(* that values of different Python types can be compared.                  *)

\* None
PyNone == [kind |-> "None", s |-> ""]
\* a datetime, named by its isoformat()
PyDatetime(iso) == [kind |-> "datetime", s |-> iso]
\* a str
PyStr(x) == [kind |-> "str", s |-> x]
\* a key that the dict does not have
NoKey == [kind |-> "absent", s |-> ""]

\* Python truthiness of a value: None and "" are falsy.
Truthy(v) == v.kind \in {"datetime", "str"} /\ ~(v.kind = "str" /\ v.s = "")

\* dict.get(key, default)
Get(v, default) == IF v.kind = "absent" THEN default ELSE v

-----------------------------------------------------------------------------
(* Tokens of raw text. *)

ISO1 == "2024-01-01T00:00:01"       \* ISO-8601, a real instant
ISOBAD == "2024-13-45T00:00:00"     \* ISO-8601 by shape, no such date
SPACE2 == "2024-01-01 00:00:02"     \* YYYY-MM-DD HH:MM:SS
APACHE == "10/Oct/2000:13:55:36"    \* DD/Mon/YYYY:HH:MM:SS
SYSLOG == "Jan  1 00:00:01"         \* Mon DD HH:MM:SS
DOCKER_TS == "2024-01-01T00:00:00.000000000Z"   \* as the Docker adapter hints it
TRACE == "trace_id=abc"
REQUEST == "request_id=12"

IsSpace(t) == t = " "
IsPunct(t) == t \in {"-", ":", "[", "]"}
\* Whether the token's text starts and ends with a word character (\w).
IsWordTok(t) == ~IsSpace(t) /\ ~IsPunct(t) /\ t \notin {"{", "}"}

\* LogParser.TIMESTAMP_PATTERNS: the tokens each regex matches, and whether
\* the pattern comes with a strptime format.
TIMESTAMP_PATTERNS ==
    << [toks |-> {ISO1, ISOBAD, DOCKER_TS}, fmt |-> TRUE],
       [toks |-> {SPACE2},       fmt |-> TRUE],
       [toks |-> {APACHE},       fmt |-> TRUE],
       [toks |-> {SYSLOG},       fmt |-> FALSE] >>

\* LogParser.LEVEL_PATTERNS: the tokens each regex matches under re.I
LEVEL_PATTERNS ==
    << [words |-> {"FATAL", "CRITICAL"}, level |-> "critical"],
       [words |-> {"ERROR", "ERR", "Error", "error"}, level |-> "error"],
       [words |-> {"WARN", "WARNING"},   level |-> "warn"],
       [words |-> {"INFO", "NOTICE"},    level |-> "info"],
       [words |-> {"DEBUG", "TRACE"},    level |-> "debug"] >>

\* datetime.strptime(ts_str[:19], fmt[:len(ts_str)]) of a matched token:
\* whether it succeeds, and the instant it gives.  The Apache form is 20
\* characters long, so [:19] cuts its last digit.
StrptimeOk(t) == t \in {ISO1, SPACE2, APACHE, DOCKER_TS}
StrptimeValue(t) ==
    CASE t = ISO1 -> PyDatetime("2024-01-01T00:00:01")
      [] t = DOCKER_TS -> PyDatetime("2024-01-01T00:00:00")
      [] t = SPACE2 -> PyDatetime("2024-01-01T00:00:02")
      [] t = APACHE -> PyDatetime("2000-10-10T13:55:03")
      [] OTHER -> PyNone

\* re.search(pattern, text): the position of the leftmost match, 0 if none.
FirstMatch(text, toks) ==
    IF \E i \in DOMAIN text : text[i] \in toks
    THEN CHOOSE i \in DOMAIN text :
            /\ text[i] \in toks
            /\ \A j \in 1..(i - 1) : text[j] \notin toks
    ELSE 0

\* LogParser._extract_timestamp, from pattern k on.
RECURSIVE ExtractTimestampFrom(_, _)
ExtractTimestampFrom(text, k) ==
    IF k > Len(TIMESTAMP_PATTERNS) THEN PyNone
    ELSE LET p == TIMESTAMP_PATTERNS[k]
             i == FirstMatch(text, p.toks)
         IN  IF i # 0 /\ p.fmt /\ StrptimeOk(text[i])
             THEN StrptimeValue(text[i])
             ELSE ExtractTimestampFrom(text, k + 1)

_extract_timestamp(text) == ExtractTimestampFrom(text, 1)

\* A match of \b(WORD)\b at position i.
LevelMatchAt(text, i, words) ==
    /\ text[i] \in words
    /\ (i = 1 \/ ~IsWordTok(text[i - 1]))
    /\ (i = Len(text) \/ ~IsWordTok(text[i + 1]))

LevelMatches(text, words) ==
    {i \in DOMAIN text : LevelMatchAt(text, i, words)}

\* LogParser._extract_level, from pattern k on.
RECURSIVE ExtractLevelFrom(_, _)
ExtractLevelFrom(text, k) ==
    IF k > Len(LEVEL_PATTERNS) THEN "info"
    ELSE IF LevelMatches(text, LEVEL_PATTERNS[k].words) # {}
         THEN LEVEL_PATTERNS[k].level
         ELSE ExtractLevelFrom(text, k + 1)

_extract_level(text) == ExtractLevelFrom(text, 1)

\* for pattern, _ in TIMESTAMP_PATTERNS: text = re.sub(pattern, "", text)
RECURSIVE RemoveTimestamps(_, _)
RemoveTimestamps(text, k) ==
    IF k > Len(TIMESTAMP_PATTERNS) THEN text
    ELSE RemoveTimestamps(
            DropAt(text, {i \in DOMAIN text : text[i] \in TIMESTAMP_PATTERNS[k].toks}, 1),
            k + 1)

\* for pattern, _ in LEVEL_PATTERNS: text = re.sub(pattern, "", text, flags=re.I)
RECURSIVE RemoveLevels(_, _)
RemoveLevels(text, k) ==
    IF k > Len(LEVEL_PATTERNS) THEN text
    ELSE RemoveLevels(
            DropAt(text, LevelMatches(text, LEVEL_PATTERNS[k].words), 1),
            k + 1)

\* The length of the run of blanks (of punctuation signs) that starts at i.
RECURSIVE RunOfSpaces(_, _)
RunOfSpaces(text, i) ==
    IF i <= Len(text) /\ IsSpace(text[i]) THEN 1 + RunOfSpaces(text, i + 1) ELSE 0

RECURSIVE RunOfPunct(_, _)
RunOfPunct(text, i) ==
    IF i <= Len(text) /\ IsPunct(text[i]) THEN 1 + RunOfPunct(text, i + 1) ELSE 0

\* re.sub(r"^\s*[-:\[\]]+\s*", "", text)
RemoveLeadingPunct(text) ==
    LET a == RunOfSpaces(text, 1)
        p == RunOfPunct(text, a + 1)
        q == RunOfSpaces(text, a + p + 1)
    IN  IF p = 0 THEN text ELSE SubSeq(text, a + p + q + 1, Len(text))

RECURSIVE RStrip(_)
RStrip(text) ==
    IF text # <<>> /\ IsSpace(text[Len(text)])
    THEN RStrip(SubSeq(text, 1, Len(text) - 1))
    ELSE text

\* str.strip()
Strip(text) ==
    LET r == RStrip(text) IN SubSeq(r, RunOfSpaces(r, 1) + 1, Len(r))

NoMessage == <<"No message">>

\* LogParser._extract_message
_extract_message(text) ==
    LET t == Strip(RemoveLeadingPunct(RemoveLevels(RemoveTimestamps(text, 1), 1)))
    IN  IF t = <<>> THEN NoMessage ELSE t

\* The longest prefix of a token's text that [a-f0-9-]+ matches under re.I,
\* and whether that prefix is the whole token.
HexPrefix(t) ==
    CASE t = "-" -> [s |-> "-", whole |-> TRUE]
      [] t = ISO1 -> [s |-> "2024-01-01", whole |-> FALSE]
      [] t = ISOBAD -> [s |-> "2024-13-45", whole |-> FALSE]
      [] t = SPACE2 -> [s |-> "2024-01-01", whole |-> FALSE]
      [] t = APACHE -> [s |-> "10", whole |-> FALSE]
      [] t = "ERROR" -> [s |-> "E", whole |-> FALSE]
      [] t = "FATAL" -> [s |-> "FA", whole |-> FALSE]
      [] OTHER -> [s |-> "", whole |-> FALSE]

\* What the group ([a-f0-9-]+) takes from the tokens after position i.
RECURSIVE HexTail(_, _)
HexTail(text, i) ==
    IF i > Len(text) THEN <<>>
    ELSE LET h == HexPrefix(text[i])
         IN  IF h.s = "" THEN <<>>
             ELSE IF h.whole THEN <<h.s>> \o HexTail(text, i + 1)
             ELSE <<h.s>>

\* re.search(r"trace[_-]?id[=:]\s*([a-f0-9-]+)", raw, re.I) and the same for
\* request ids: the metadata of a text entry, a set of <<key, value>> pairs.
IdMatch(text, tok, key, head) ==
    LET i == FirstMatch(text, {tok})
    IN  IF i = 0 THEN {} ELSE {<<key, <<head>> \o HexTail(text, i + 1)>>}

TextMetadata(text) ==
    IdMatch(text, TRACE, "trace_id", "abc") \cup IdMatch(text, REQUEST, "request_id", "12")

-----------------------------------------------------------------------------
(* JSON log lines.  A JSON line is "{", field tokens, "}"; a field token   *)
(* is one "key": value pair.                                               *)

F_TS_NUM == "\"timestamp\":1"
F_TS_BIG == "\"timestamp\":1e20"
F_TS_SYSLOG == "\"timestamp\":\"Jan  1 00:00:01\""
F_TIME_ISO == "\"time\":\"2024-01-01T00:00:01\""
F_LEVEL_ERROR == "\"level\":\"error\""
F_LEVEL_VERBOSE == "\"level\":\"verbose\""
F_SEVERITY_FATAL == "\"severity\":\"fatal\""
F_MESSAGE_IO == "\"message\":\"io\""
F_MESSAGE_EMPTY == "\"message\":\"\""
F_SERVICE_API == "\"service\":\"api\""
F_TRACE_ABC == "\"trace_id\":\"abc\""

JsonFieldToks ==
    {F_TS_NUM, F_TS_BIG, F_TS_SYSLOG, F_TIME_ISO, F_LEVEL_ERROR, F_LEVEL_VERBOSE,
     F_SEVERITY_FATAL, F_MESSAGE_IO, F_MESSAGE_EMPTY, F_SERVICE_API, F_TRACE_ABC}

\* The key and the value of a field token.  type is the Python type of the
\* value; text is the value as text (str(value)).
JsonField(t) ==
    CASE t = F_TS_NUM -> [key |-> "timestamp", type |-> "num", text |-> <<"1">>]
      [] t = F_TS_BIG -> [key |-> "timestamp", type |-> "num", text |-> <<"1e+20">>]
      [] t = F_TS_SYSLOG -> [key |-> "timestamp", type |-> "str", text |-> <<SYSLOG>>]
      [] t = F_TIME_ISO -> [key |-> "time", type |-> "str", text |-> <<ISO1>>]
      [] t = F_LEVEL_ERROR -> [key |-> "level", type |-> "str", text |-> <<"error">>]
      [] t = F_LEVEL_VERBOSE -> [key |-> "level", type |-> "str", text |-> <<"verbose">>]
      [] t = F_SEVERITY_FATAL -> [key |-> "severity", type |-> "str", text |-> <<"fatal">>]
      [] t = F_MESSAGE_IO -> [key |-> "message", type |-> "str", text |-> <<"io">>]
      [] t = F_MESSAGE_EMPTY -> [key |-> "message", type |-> "str", text |-> <<>>]
      [] t = F_SERVICE_API -> [key |-> "service", type |-> "str", text |-> <<"api">>]
      [] t = F_TRACE_ABC -> [key |-> "trace_id", type |-> "str", text |-> <<"abc">>]

\* json.loads(raw) raises JSONDecodeError unless the text is an object.
JsonDecodes(raw) ==
    LET t == Strip(raw)
    IN  /\ Len(t) >= 2
        /\ t[1] = "{"
        /\ t[Len(t)] = "}"
        /\ \A i \in 2..(Len(t) - 1) : t[i] \in JsonFieldToks

\* json.loads(raw): the dict, a function from its keys to [type, text].
\* Of two fields with the same key the later one stays.
JsonLoads(raw) ==
    LET t == Strip(raw)
        fields == SubSeq(t, 2, Len(t) - 1)
        last(k) == CHOOSE i \in DOMAIN fields :
                      /\ JsonField(fields[i]).key = k
                      /\ \A j \in DOMAIN fields :
                            JsonField(fields[j]).key = k => j <= i
    IN  [k \in {JsonField(fields[i]).key : i \in DOMAIN fields} |->
            [type |-> JsonField(fields[last(k)]).type,
             text |-> JsonField(fields[last(k)]).text]]

\* datetime.fromtimestamp(value): OverflowError when out of range.
FromTimestampOk(text) == text = <<"1">>
FromTimestamp(text) == PyDatetime("1970-01-01T00:00:01")

\* LogParser._extract_timestamp_from_json, from key k of the list on:
\* [exc, v], exc the exception raised ("" if none).
TimestampKeys == <<"timestamp", "time", "@timestamp", "ts", "datetime">>

RECURSIVE ExtractTimestampFromJson(_, _)
ExtractTimestampFromJson(data, k) ==
    IF k > Len(TimestampKeys) THEN [exc |-> "", v |-> PyNone]
    ELSE LET key == TimestampKeys[k]
         IN  IF key \notin DOMAIN data THEN ExtractTimestampFromJson(data, k + 1)
             ELSE IF data[key].type = "num"
                  THEN IF FromTimestampOk(data[key].text)
                       THEN [exc |-> "", v |-> FromTimestamp(data[key].text)]
                       ELSE [exc |-> "OverflowError", v |-> PyNone]
             ELSE IF data[key].type = "str"
                  THEN [exc |-> "", v |-> _extract_timestamp(data[key].text)]
             ELSE ExtractTimestampFromJson(data, k + 1)

_extract_timestamp_from_json(data) == ExtractTimestampFromJson(data, 1)

\* LogParser._extract_level_from_json
LevelKeys == <<"level", "severity", "loglevel", "log_level">>

JsonLevelOf(text) ==
    CASE text \in {<<"fatal">>, <<"critical">>, <<"crit">>} -> "critical"
      [] text \in {<<"error">>, <<"err">>} -> "error"
      [] text \in {<<"warn">>, <<"warning">>} -> "warn"
      [] text \in {<<"info">>, <<"notice">>} -> "info"
      [] text \in {<<"debug">>, <<"trace">>} -> "debug"
      [] OTHER -> ""

RECURSIVE ExtractLevelFromJson(_, _)
ExtractLevelFromJson(data, k) ==
    IF k > Len(LevelKeys) THEN "info"
    ELSE IF LevelKeys[k] \in DOMAIN data /\ JsonLevelOf(data[LevelKeys[k]].text) # ""
         THEN JsonLevelOf(data[LevelKeys[k]].text)
         ELSE ExtractLevelFromJson(data, k + 1)

_extract_level_from_json(data) == ExtractLevelFromJson(data, 1)

\* LogParser._extract_message_from_json.  str(data), the text of the whole
\* dict, is modelled by the text of the object as it was read.
MessageKeys == <<"message", "msg", "text", "log", "error">>

RECURSIVE ExtractMessageFromJson(_, _, _)
ExtractMessageFromJson(data, raw, k) ==
    IF k > Len(MessageKeys) THEN Strip(raw)
    ELSE IF MessageKeys[k] \in DOMAIN data
         THEN data[MessageKeys[k]].text
         ELSE ExtractMessageFromJson(data, raw, k + 1)

_extract_message_from_json(data, raw) == ExtractMessageFromJson(data, raw, 1)

NotMetadataKeys ==
    {"timestamp", "time", "@timestamp", "level", "severity", "message", "msg",
     "service", "app"}

-----------------------------------------------------------------------------
(* LogParser.parse *)

\* A raw entry: the text and the values an ingestion adapter adds under the
\* keys "service", "timestamp" and "level".
RawEntry(raw, service, timestamp, level) ==
    [raw |-> raw, service |-> service, timestamp |-> timestamp, level |-> level]

\* A ParsedLog.  service and message are token sequences; level is a string.
ParsedLog(raw, timestamp, level, service, message, metadata) ==
    [raw |-> raw, timestamp |-> timestamp, level |-> level, service |-> service,
     message |-> message, metadata |-> metadata, error_id |-> <<>>]

NoLog == ParsedLog(<<>>, PyNone, "", "", <<>>, {})

\* What a call returns: a ParsedLog, None, or an exception.
Returned(log) == [kind |-> "ParsedLog", exc |-> "", log |-> log]
ReturnedNone == [kind |-> "None", exc |-> "", log |-> NoLog]
Raised(exc) == [kind |-> "raise", exc |-> exc, log |-> NoLog]
NotCalled == [kind |-> "not called", exc |-> "", log |-> NoLog]

\* self._extract_timestamp(raw) or entry.get("timestamp")
TextTimestamp(raw, e) ==
    IF Truthy(_extract_timestamp(raw)) THEN _extract_timestamp(raw)
    ELSE Get(e.timestamp, PyNone)

\* self._extract_level(raw) or entry.get("level", "info"): _extract_level
\* never returns an empty string.
TextLevel(raw, e) ==
    IF _extract_level(raw) # "" THEN _extract_level(raw)
    ELSE Get(e.level, PyStr("info")).s

\* LogParser._parse_text
_parse_text(raw, e) ==
    Returned(ParsedLog(raw,
                       TextTimestamp(raw, e),
                       TextLevel(raw, e),
                       Get(e.service, PyStr("unknown")).s,
                       _extract_message(raw),
                       TextMetadata(raw)))

\* data.get("service") or data.get("app") or entry.get("service", "unknown")
JsonService(data, e) ==
    IF "service" \in DOMAIN data /\ data["service"].text # <<>>
    THEN data["service"].text[1]
    ELSE IF "app" \in DOMAIN data /\ data["app"].text # <<>>
    THEN data["app"].text[1]
    ELSE Get(e.service, PyStr("unknown")).s

\* LogParser._parse_json
_parse_json(raw, e) ==
    IF ~JsonDecodes(raw) THEN _parse_text(raw, e)
    ELSE LET data == JsonLoads(raw)
             ts == _extract_timestamp_from_json(data)
         IN  IF ts.exc # "" THEN Raised(ts.exc)
             ELSE Returned(ParsedLog(
                     raw,
                     ts.v,
                     _extract_level_from_json(data),
                     JsonService(data, e),
                     _extract_message_from_json(data, raw),
                     {<<k, data[k].text>> : k \in DOMAIN data \ NotMetadataKeys}))

\* if not raw: return None
RawIsEmpty(raw) == raw = <<>>

\* raw.strip().startswith("{")
LooksLikeJson(raw) == Strip(raw) # <<>> /\ Strip(raw)[1] = "{"

\* LogParser.parse
parse(e) ==
    IF RawIsEmpty(e.raw) THEN ReturnedNone
    ELSE IF LooksLikeJson(e.raw) THEN _parse_json(e.raw, e)
    ELSE _parse_text(e.raw, e)

-----------------------------------------------------------------------------
(* ParsedLog.to_dict and DebugEngine *)

\* self.timestamp.isoformat() if self.timestamp else None: a str has no
\* isoformat.
ToDictRaises(log) == log.timestamp.kind = "str" /\ Truthy(log.timestamp)

IsoFormat(ts) == IF ts.kind = "datetime" THEN PyStr(ts.s) ELSE PyNone

\* ParsedLog.to_dict
to_dict(log) == [log EXCEPT !.timestamp = IsoFormat(log.timestamp)]

\* A variant of _generate_error_id that hashes the raw line instead of
\* (service, message, level).
GenerateErrorIdFromRaw(log) == <<"err_">> \o log.raw

\* DebugEngine._generate_error_id: "err_" + sha256(content).hexdigest()[:12]
\* with content = f"{service}:{message}:{level}".  The digest is modelled by
\* its preimage: equal contents give equal ids.
_generate_error_id(log) ==
    <<"err_", log.service, ":">> \o log.message \o <<":", log.level>>

\* dict[key] = value
Put(index, key, value) ==
    [k \in DOMAIN index \cup {key} |-> IF k = key THEN value ELSE index[k]]

\* entry.level in ("error", "critical", "fatal")
IsErrorLevel(level) == level \in {"error", "critical", "fatal"}

\* The loop of DebugEngine.parse_logs from entry i on; st holds
\* self._parsed_logs, self._error_index and the exception that ended the loop.
RECURSIVE ParseLogsFrom(_, _, _)
ParseLogsFrom(raw_logs, i, st) ==
    IF i > Len(raw_logs) THEN st
    ELSE LET r == parse(raw_logs[i])
         IN  IF r.kind = "raise" THEN [st EXCEPT !.exc = r.exc]
             ELSE IF r.kind = "None" THEN ParseLogsFrom(raw_logs, i + 1, st)
             ELSE IF IsErrorLevel(r.log.level)
             THEN LET log == [r.log EXCEPT !.error_id = _generate_error_id(r.log)]
                  IN  IF ToDictRaises(log) THEN [st EXCEPT !.exc = "AttributeError"]
                      ELSE ParseLogsFrom(raw_logs, i + 1,
                              [st EXCEPT !.logs = Append(@, log),
                                         !.index = Put(@, log.error_id, to_dict(log))])
             ELSE ParseLogsFrom(raw_logs, i + 1, [st EXCEPT !.logs = Append(@, r.log)])

\* DebugEngine.parse_logs
parse_logs(raw_logs, index) ==
    ParseLogsFrom(raw_logs, 1, [logs |-> <<>>, index |-> index, exc |-> ""])

\* The loop of DebugEngine.identify_errors; st holds the local list errors,
\* self._error_index and the exception that ended the loop.
RECURSIVE IdentifyErrorsFrom(_, _, _)
IdentifyErrorsFrom(logs, i, st) ==
    IF i > Len(logs) THEN st
    ELSE IF logs[i].level \notin {"error", "critical", "fatal", "exception"}
    THEN IdentifyErrorsFrom(logs, i + 1, st)
    ELSE IF ToDictRaises(logs[i]) THEN [st EXCEPT !.exc = "AttributeError"]
    ELSE LET id == IF logs[i].error_id # <<>> THEN logs[i].error_id
                   ELSE _generate_error_id(logs[i])
             d == [to_dict(logs[i]) EXCEPT !.error_id = id]
         IN  IdentifyErrorsFrom(logs, i + 1,
                [st EXCEPT !.errors = Append(@, d), !.index = Put(@, id, d)])

\* DebugEngine.identify_errors
identify_errors(logs, index) ==
    IdentifyErrorsFrom(logs, 1, [errors |-> <<>>, index |-> index, exc |-> ""])

-----------------------------------------------------------------------------
(* Lists of dicts: sorting, timestamps as strings. *)

T0 == "2024-01-01T00:00:00"
T30 == "2024-01-01T00:00:30"
T120 == "2024-01-01T00:02:00"

\* The order of Python's str comparison on the strings of the model.
StrRank(s) ==
    CASE s = "" -> 0
      [] s = "1970-01-01T00:00:01" -> 1
      [] s = "2000-10-10T13:55:03" -> 2
      [] s = T0 -> 3
      [] s = DOCKER_TS -> 4
      [] s = ISO1 -> 5
      [] s = "2024-01-01T00:00:02" -> 6
      [] s = T30 -> 7
      [] s = T120 -> 8

\* The sort key e.get("timestamp", "") of a dict.
TimestampKey(e) == Get(e.timestamp, PyStr(""))

\* sorted(xs, key=lambda e: e.get("timestamp", "")) raises TypeError when a
\* key that is None is compared, which happens as soon as the list has a
\* second element.
SortRaises(keys) ==
    Len(keys) >= 2 /\ \E i \in DOMAIN keys : keys[i].kind = "None"

\* The stable sort of the positions 1..Len(keys) by the rank of their keys.
RECURSIVE InsertByRank(_, _, _)
InsertByRank(sorted, i, rank) ==
    IF sorted = <<>> THEN <<i>>
    ELSE IF rank[i] < rank[sorted[Len(sorted)]]
         THEN Append(InsertByRank(SubSeq(sorted, 1, Len(sorted) - 1), i, rank),
                     sorted[Len(sorted)])
         ELSE Append(sorted, i)

RECURSIVE SortPositions(_, _)
SortPositions(rank, n) ==
    IF n = 0 THEN <<>> ELSE InsertByRank(SortPositions(rank, n - 1), n, rank)

\* sorted(errors, key=lambda e: e.get("timestamp", "")), as positions
SortedByTimestamp(es) ==
    SortPositions([i \in DOMAIN es |-> StrRank(TimestampKey(es[i]).s)], Len(es))

\* The ErrorCorrelator's time_window (seconds)
time_window == 60

\* ErrorCorrelator._parse_timestamp of a str, in seconds since T0; a string
\* that no format parses gives datetime.now().
_parse_timestamp(s, now) ==
    CASE s = T0 -> 0
      [] s = ISO1 -> 1
      [] s = "2024-01-01T00:00:02" -> 2
      [] s = T30 -> 30
      [] s = T120 -> 120
      [] s = DOCKER_TS -> 0
      [] s = "1970-01-01T00:00:01" -> 0 - 1704067199
      [] s = "2000-10-10T13:55:03" -> 0 - 732881097
      [] OTHER -> now

\* error.get("metadata", {}).get(key): the value, <<>> if there is none
MetaGet(e, key) ==
    IF \E p \in e.metadata : p[1] = key
    THEN (CHOOSE p \in e.metadata : p[1] = key)[2]
    ELSE <<>>

-----------------------------------------------------------------------------
(* ErrorCorrelator.correlate *)

NoGroup == <<>>

\* ErrorCorrelator._group_by_trace_id from entry i on: st.groups maps an
\* error_id to its group, st.seen lists the trace ids in order of first
\* occurrence (trace_to_group).
RECURSIVE GroupByTraceFrom(_, _, _)
GroupByTraceFrom(es, i, st) ==
    IF i > Len(es) THEN st.groups
    ELSE LET trace_id == MetaGet(es[i], "trace_id")
         IN  IF trace_id = <<>> THEN GroupByTraceFrom(es, i + 1, st)
             ELSE LET seen == IF \E k \in DOMAIN st.seen : st.seen[k] = trace_id
                              THEN st.seen ELSE Append(st.seen, trace_id)
                      n == CHOOSE k \in DOMAIN seen : seen[k] = trace_id
                  IN  GroupByTraceFrom(es, i + 1,
                         [groups |-> Put(st.groups, es[i].error_id, <<"trace", n - 1>>),
                          seen |-> seen])

_group_by_trace_id(es) == GroupByTraceFrom(es, 1, [groups |-> <<>>, seen |-> <<>>])

\* The walk of ErrorCorrelator._group_by_time over the sorted errors from
\* position k on: st.groups maps an error_id to its group, st.counter is
\* group_counter, st.last is last_time (-1: None).
RECURSIVE GroupByTimeFrom(_, _, _, _, _)
GroupByTimeFrom(es, order, k, st, now) ==
    IF k > Len(order) THEN st.groups
    ELSE LET e == es[order[k]]
         IN  IF ~Truthy(Get(e.timestamp, PyNone))
             THEN GroupByTimeFrom(es, order, k + 1, st, now)
             ELSE LET current_time == _parse_timestamp(e.timestamp.s, now)
                      fresh == st.last = -1 \/ current_time - st.last > time_window
                      counter == IF fresh THEN st.counter + 1 ELSE st.counter
                  IN  GroupByTimeFrom(es, order, k + 1,
                         [groups |-> Put(st.groups, e.error_id, <<"time", counter - 1>>),
                          counter |-> counter,
                          last |-> current_time], now)

_group_by_time(es, now) ==
    GroupByTimeFrom(es, SortedByTimestamp(es), 1,
                    [groups |-> <<>>, counter |-> 0, last |-> -1], now)

\* ErrorCorrelator._find_causal_chains: for i, error in enumerate(sorted):
\* chains[error_id] = i, for the first k sorted errors.
RECURSIVE FindCausalChains(_, _, _)
FindCausalChains(es, order, k) ==
    IF k = 0 THEN <<>>
    ELSE Put(FindCausalChains(es, order, k - 1), es[order[k]].error_id, k - 1)

_find_causal_chains(es) == FindCausalChains(es, SortedByTimestamp(es), Len(es))

\* dict.get(key): None (NoGroup, -1) if the key is missing
GroupOf(groups, id) == IF id \in DOMAIN groups THEN groups[id] ELSE NoGroup
PositionOf(chains, id) == IF id \in DOMAIN chains THEN chains[id] ELSE -1

\* What a batch operation returns: a value, or an exception.
Value(v) == [kind |-> "value", exc |-> "", v |-> v]
Raises(exc) == [kind |-> "raise", exc |-> exc, v |-> <<>>]

\* A sort key that leaves the chain position out.
CorrelatedRankByTimestamp(c) == StrRank(TimestampKey(c).s)

\* correlated.sort(key=lambda e: (chain_position, e.get("timestamp", ""))):
\* the rank of a tuple key; the tuples are compared by their first elements,
\* and by their timestamps when those are equal.
CorrelatedRank(c) ==
    c.correlations.chain_position * 16 + StrRank(TimestampKey(c).s)

\* The tuple comparison compares two timestamps only where the chain
\* positions are equal and the timestamps differ; with a None it raises.
CorrelatedSortRaises(cs) ==
    \E i, j \in DOMAIN cs :
        /\ i # j
        /\ cs[i].correlations.chain_position = cs[j].correlations.chain_position
        /\ TimestampKey(cs[i]) # TimestampKey(cs[j])
        /\ "None" \in {TimestampKey(cs[i]).kind, TimestampKey(cs[j]).kind}

\* ErrorCorrelator.correlate; an entry of the result is the copy of the
\* error with its correlations, and index tells which input it copies.
correlate(es, now) ==
    IF es = <<>> THEN Value(es)
    ELSE IF SortRaises([i \in DOMAIN es |-> TimestampKey(es[i])]) THEN Raises("TypeError")
    ELSE LET trace_groups == _group_by_trace_id(es)
             time_groups == _group_by_time(es, now)
             chains == _find_causal_chains(es)
             correlated ==
                [i \in DOMAIN es |->
                    [error |-> es[i],
                     index |-> i,
                     timestamp |-> es[i].timestamp,
                     correlations |->
                        [trace_group |-> GroupOf(trace_groups, es[i].error_id),
                         time_group |-> GroupOf(time_groups, es[i].error_id),
                         chain_position |-> PositionOf(chains, es[i].error_id)]]]
             order == SortPositions([i \in DOMAIN es |-> CorrelatedRank(correlated[i])],
                                    Len(es))
         IN  IF CorrelatedSortRaises(correlated) THEN Raises("TypeError")
             ELSE Value([k \in DOMAIN order |-> correlated[order[k]]])

-----------------------------------------------------------------------------
(* ErrorCorrelator.group_related and find_root_cause *)

\* str.lower() of a token
Lower(t) ==
    CASE t = "ERROR" -> "error"
      [] t = "FATAL" -> "fatal"
      [] t = "WARN" -> "warn"
      [] t = "M" -> "m"
      [] OTHER -> t

\* set(message.lower().split()): the maximal runs of tokens that are not
\* white space
Words(m) ==
    { [k \in 1..(j - i + 1) |-> Lower(m[i + k - 1])] :
        <<i, j>> \in { ij \in (DOMAIN m) \X (DOMAIN m) :
                         /\ ij[1] <= ij[2]
                         /\ \A k \in ij[1]..ij[2] : ~IsSpace(m[k])
                         /\ (ij[1] = 1 \/ IsSpace(m[ij[1] - 1]))
                         /\ (ij[2] = Len(m) \/ IsSpace(m[ij[2] + 1])) } }

Max(a, b) == IF a >= b THEN a ELSE b
Abs(a) == IF a >= 0 THEN a ELSE 0 - a

\* overlap = len(words1 & words2) / max(len(words1 | words2), 1) > 0.3
Overlaps(m1, m2) ==
    LET words1 == Words(m1)
        words2 == Words(m2)
    IN  Cardinality(words1 \cap words2) * 10
            > 3 * Max(Cardinality(words1 \cup words2), 1)

\* A relatedness test that looks at time and message only.
AreRelatedByTimeOnly(error1, error2, now) ==
    LET ts1 == TimestampKey(error1)
        ts2 == TimestampKey(error2)
    IN  /\ ts1.kind # "None" /\ ts2.kind # "None"
        /\ Abs(_parse_timestamp(ts1.s, now) - _parse_timestamp(ts2.s, now))
             < time_window
        /\ Overlaps(error1.message, error2.message)

\* ErrorCorrelator._are_related; _parse_timestamp(None) raises a TypeError
\* that the bare except swallows.
_are_related(error1, error2, now) ==
    LET trace1 == MetaGet(error1, "trace_id")
        trace2 == MetaGet(error2, "trace_id")
        req1 == MetaGet(error1, "request_id")
        req2 == MetaGet(error2, "request_id")
        ts1 == TimestampKey(error1)
        ts2 == TimestampKey(error2)
    IN  \/ trace1 # <<>> /\ trace2 # <<>> /\ trace1 = trace2
        \/ req1 # <<>> /\ req2 # <<>> /\ req1 = req2
        \/ /\ ts1.kind # "None" /\ ts2.kind # "None"
           /\ Abs(_parse_timestamp(ts1.s, now) - _parse_timestamp(ts2.s, now))
                < time_window
           /\ Overlaps(error1.message, error2.message)

\* find(x) of the union-find; the path compression of the code changes no
\* root.
RECURSIVE find(_, _)
find(parent, x) == IF parent[x] = x THEN x ELSE find(parent, parent[x])

\* A union that links the two entries themselves, not their roots.
LinkEntries(parent, x, y) == [parent EXCEPT ![x] = y]

union(parent, x, y) ==
    LET px == find(parent, x)
        py == find(parent, y)
    IN  IF px # py THEN [parent EXCEPT ![px] = py] ELSE parent

\* for i, error1 in enumerate(errors): for j, error2 in enumerate(errors[i+1:], i+1)
RECURSIVE ConnectFrom(_, _, _, _, _)
ConnectFrom(es, i, j, parent, now) ==
    IF i > Len(es) THEN parent
    ELSE IF j > Len(es) THEN ConnectFrom(es, i + 1, i + 2, parent, now)
    ELSE ConnectFrom(es, i, j + 1,
                     IF _are_related(es[i], es[j], now) THEN union(parent, i, j)
                     ELSE parent,
                     now)

\* groups[find(i)].append(error), list(groups.values()): the groups in the
\* order in which their first member occurs, from entry i on.
RECURSIVE GroupsFrom(_, _, _)
GroupsFrom(es, parent, i) ==
    IF i > Len(es) THEN <<>>
    ELSE IF \E k \in 1..(i - 1) : find(parent, k) = find(parent, i)
         THEN GroupsFrom(es, parent, i + 1)
         ELSE <<SelectSeq([k \in DOMAIN es |-> [pos |-> k, error |-> es[k]]],
                          LAMBDA m : find(parent, m.pos) = find(parent, i))>>
              \o GroupsFrom(es, parent, i + 1)

\* ErrorCorrelator.group_related; a member of a group is the error with its
\* position in the input.
group_related(es, now) ==
    IF es = <<>> THEN Value(<<>>)
    ELSE Value(GroupsFrom(es, ConnectFrom(es, 1, 2, [i \in DOMAIN es |-> i], now), 1))

DbServices == {"db", "database", "postgres", "mysql", "redis", "mongo"}
InfraServices == {"queue", "kafka", "rabbit", "cache"}

\* Pairs <<token, word>> of the model where the word is inside the lowered
\* token without being the whole of it.
Substrings ==
    {<<F_LEVEL_ERROR, "error">>, <<"warning", "warn">>, <<"timeouts", "timeout">>}

\* word in token.lower()
TokenHas(tok, word) == Lower(tok) = word \/ <<tok, word>> \in Substrings

\* term in message.lower(), the term a sequence of words and single spaces
HasTerm(m, term) ==
    \E i \in 1..(Len(m) - Len(term) + 1) :
        \A k \in DOMAIN term :
            IF Len(term) = 1 THEN TokenHas(m[i + k - 1], term[k])
            ELSE Lower(m[i + k - 1]) = term[k]

\* any(term in message for term in ["connection refused", "timeout", "unavailable"])
HasRootCauseTerm(m) ==
    \E term \in {<<"connection", " ", "refused">>, <<"timeout">>, <<"unavailable">>} :
        HasTerm(m, term)

MinOf(S) == CHOOSE x \in S : \A y \in S : x <= y
MaxOf(S) == CHOOSE x \in S : \A y \in S : x >= y

\* ErrorCorrelator._calculate_root_cause_score, as the fraction num / den:
\* den is time_range, the same for every error of the list.
_calculate_root_cause_score(error, all_errors, now) ==
    LET timestamps == { _parse_timestamp(all_errors[i].timestamp.s, now) :
                          i \in { k \in DOMAIN all_errors :
                                    Truthy(Get(all_errors[k].timestamp, PyNone)) } }
        timed == timestamps # {} /\ TimestampKey(error).kind # "None"
        min_time == MinOf(timestamps)
        span == MaxOf(timestamps) - min_time
        time_range == IF timestamps = {} \/ span = 0 THEN 1 ELSE span
        error_time == _parse_timestamp(TimestampKey(error).s, now)
        service == IF error.service \in DbServices THEN 30
                   ELSE IF error.service \in InfraServices THEN 20 ELSE 0
        message == IF HasRootCauseTerm(error.message) THEN 25 ELSE 0
    IN  [num |-> (IF timed THEN (time_range - (error_time - min_time)) * 50 ELSE 0)
                   + (service + message) * time_range,
         den |-> time_range]

\* A choice of the last error with the highest score.
FindRootCauseLast(es, now) ==
    IF es = <<>> THEN Value(<<>>)
    ELSE LET score == [i \in DOMAIN es |-> _calculate_root_cause_score(es[i], es, now).num]
             best == CHOOSE i \in DOMAIN es :
                        /\ \A k \in DOMAIN es : score[k] <= score[i]
                        /\ \A k \in (i + 1)..Len(es) : score[k] < score[i]
         IN  Value(<<es[best]>>)

\* ErrorCorrelator.find_root_cause: scores.sort(reverse=True) is stable, so
\* the first error with the highest score is returned; None is <<>>.
find_root_cause(es, now) ==
    IF es = <<>> THEN Value(<<>>)
    ELSE LET score == [i \in DOMAIN es |-> _calculate_root_cause_score(es[i], es, now).num]
             best == CHOOSE i \in DOMAIN es :
                        /\ \A k \in DOMAIN es : score[k] <= score[i]
                        /\ \A k \in 1..(i - 1) : score[k] < score[i]
         IN  Value(<<es[best]>>)

-----------------------------------------------------------------------------
(* TimelineBuilder.build_incident_timeline *)

\* datetime.fromisoformat(s[:19]) succeeds
FromIsoOk(s) ==
    s \in {T0, T30, T120, ISO1, DOCKER_TS, "2024-01-01T00:00:02",
           "1970-01-01T00:00:01", "2000-10-10T13:55:03"}

\* TimelineBuilder._calculate_duration: "Ns", "Nm Ns", "Nh Nm" or "unknown"
_calculate_duration(start, end) ==
    IF ~(FromIsoOk(start) /\ FromIsoOk(end)) THEN <<"unknown">>
    ELSE LET seconds == _parse_timestamp(end, 0) - _parse_timestamp(start, 0)
         IN  IF seconds < 60 THEN <<seconds, "s">>
             ELSE IF seconds < 3600 THEN <<seconds \div 60, "m", seconds % 60, "s">>
             ELSE <<seconds \div 3600, "h", (seconds % 3600) \div 60, "m">>

\* TimelineBuilder._analyze_timeline; first_error is <<>> for None
_analyze_timeline(events) ==
    LET errs == { i \in DOMAIN events : events[i].level \in {"error", "critical"} }
        services_affected == { events[i].service : i \in { k \in DOMAIN events :
                                                            events[k].service # "" } }
    IN  [total_events |-> Len(events),
         error_count |-> Cardinality(errs),
         services_affected |-> services_affected,
         first_error |-> IF errs = {} THEN <<>> ELSE <<events[MinOf(errs)]>>,
         cascade_detected |-> Cardinality(services_affected) > 1]

\* The event that build_incident_timeline makes of an error; its timestamp
\* is error.get("timestamp"), None when the error has none.
TimelineEvent(error) ==
    [timestamp |-> Get(error.timestamp, PyNone),
     type |-> "error",
     level |-> error.level,
     service |-> error.service,
     message |-> error.message,
     is_error |-> TRUE]

\* TimelineBuilder.build_incident_timeline; the dicts it returns are
\* functions of their keys, {} is <<>>.
build_incident_timeline(es) ==
    LET timestamps == SelectSeq([i \in DOMAIN es |-> TimestampKey(es[i])], Truthy)
        order == SortPositions([i \in DOMAIN timestamps |-> StrRank(timestamps[i].s)],
                               Len(timestamps))
        timeline == [i \in DOMAIN es |-> TimelineEvent(es[i])]
        sorted == SortedByTimestamp(timeline)
        events == [k \in DOMAIN sorted |-> timeline[sorted[k]]]
    IN  IF es = <<>> THEN Value([events |-> <<>>, analysis |-> <<>>])
        ELSE IF timestamps = <<>> THEN Value([events |-> es, analysis |-> <<>>])
        ELSE IF SortRaises([i \in DOMAIN timeline |-> timeline[i].timestamp])
             THEN Raises("TypeError")
        ELSE Value([start |-> timestamps[order[1]].s,
                    end |-> timestamps[order[Len(order)]].s,
                    duration |-> _calculate_duration(timestamps[order[1]].s,
                                                     timestamps[order[Len(order)]].s),
                    events |-> events,
                    analysis |-> _analyze_timeline(events)])

-----------------------------------------------------------------------------
(* LogAnalyzer.analyze *)

UUID_DIGITS == "123e4567-e89b-12d3-a456-426614174000"
UUID_LETTERS == "abcdefab-abcd-abcd-abcd-abcdefabcdef"
UUID_ZERO == "00000000-0000-0000-0000-000000000000"

\* A digit substitution whose placeholder itself holds a digit.
SubDigitsNumbered(t) ==
    CASE t \in {"42", "7"} -> "<N0>"
      [] t = "<N0>" -> "<N<N0>>"
      [] t = "'42'" -> "'<N0>'"
      [] OTHER -> t

\* re.sub(r'\d+', '<NUM>', ...) on a token
SubDigits(t) ==
    CASE t \in {"42", "7"} -> "<NUM>"
      [] t = "'42'" -> "'<NUM>'"
      [] t = "0x1f" -> "<NUM>x<NUM>f"
      [] t = "0xff" -> "<NUM>xff"
      [] t \in {"10.0.0.1", "192.168.1.1"} -> "<NUM>.<NUM>.<NUM>.<NUM>"
      [] t = UUID_DIGITS -> "<NUM>e<NUM>-e<NUM>b-<NUM>d<NUM>-a<NUM>-<NUM>"
      [] t = UUID_ZERO -> "<NUM>-<NUM>-<NUM>-<NUM>-<NUM>"
      [] t \in {ISO1, ISOBAD, T0, T30, T120} -> "<NUM>-<NUM>-<NUM>T<NUM>:<NUM>:<NUM>"
      [] OTHER -> t

\* re.sub(r'[a-f0-9]{8}-[a-f0-9]{4}-[a-f0-9]{4}-[a-f0-9]{4}-[a-f0-9]{12}', '<UUID>', ...)
SubUuid(t) ==
    IF t \in {UUID_DIGITS, UUID_LETTERS, UUID_ZERO} THEN "<UUID>" ELSE t

\* re.sub(r'0x[a-f0-9]+', '<HEX>', ...)
SubHex(t) == IF t \in {"0x1f", "0xff"} THEN "<HEX>" ELSE t

\* re.sub(r'\d+\.\d+\.\d+\.\d+', '<IP>', ...)
SubIp(t) == IF t \in {"10.0.0.1", "192.168.1.1"} THEN "<IP>" ELSE t

\* re.sub(r'"[^"]*"', '<STR>', ...) and re.sub(r"'[^']*'", '<STR>', ...)
SubQuoted(t) ==
    IF t \in {"\"x\"", "'x'", "'42'", "'<NUM>'", "'<N0>'"} THEN "<STR>" ELSE t

\* LogAnalyzer._normalize_message: the six substitutions in the order of
\* the code, the one for digits first
_normalize_message(m) ==
    [i \in DOMAIN m |-> SubQuoted(SubIp(SubHex(SubUuid(SubDigits(m[i])))))]

\* LogAnalyzer._detect_level
_detect_level(m) ==
    IF \E w \in {"error", "exception", "failed", "fatal"} : HasTerm(m, <<w>>)
    THEN "error"
    ELSE IF \E w \in {"warn", "warning"} : HasTerm(m, <<w>>) THEN "warning"
    ELSE "info"

\* LogAnalyzer.ERROR_PATTERNS: the alternatives of each pattern and its category
ERROR_PATTERNS ==
    << [terms |-> {<<"exception">>, <<"error">>, <<"failed">>, <<"failure">>},
        category |-> "error"],
       [terms |-> {<<"warning">>, <<"warn">>}, category |-> "warning"],
       [terms |-> {<<"timeout">>, <<"timed", " ", "out">>}, category |-> "timeout"],
       [terms |-> {<<"connection", " ", "refused">>, <<"connection", " ", "reset">>},
        category |-> "connection"],
       [terms |-> {<<"out", " ", "of", " ", "memory">>, <<"oom">>, <<"memory">>},
        category |-> "memory"],
       [terms |-> {<<"permission", " ", "denied">>, <<"access", " ", "denied">>,
                   <<"unauthorized">>},
        category |-> "permission"],
       [terms |-> {<<"not", " ", "found">>, <<"404">>, <<"missing">>},
        category |-> "not_found"],
       [terms |-> {<<"null", " ", "pointer">>, <<"nullptr">>, <<"nil">>, <<"undefined">>},
        category |-> "null_reference"] >>

\* LogAnalyzer._categorize_error: the category of the first pattern found
_categorize_error(m) ==
    LET hits == { i \in DOMAIN ERROR_PATTERNS :
                    \E term \in ERROR_PATTERNS[i].terms : HasTerm(m, term) }
    IN  IF hits = {} THEN "other" ELSE ERROR_PATTERNS[MinOf(hits)].category

\* The keys of a dict that is filled in one pass over keys: the distinct
\* keys in the order of their first occurrence.
RECURSIVE FirstOccurrences(_)
FirstOccurrences(keys) ==
    IF keys = <<>> THEN <<>>
    ELSE LET front == FirstOccurrences(SubSeq(keys, 1, Len(keys) - 1))
             key == keys[Len(keys)]
         IN  IF key \in Range(front) THEN front ELSE Append(front, key)

Positions(keys, key) == SelectSeq([i \in DOMAIN keys |-> i], LAMBDA i : keys[i] = key)

\* The items left in the order of the dict.
OrderOfDict(items) == items

\* sorted(..., key=count, reverse=True): stable, the highest count first
SortedByCountDesc(items) ==
    LET order == SortPositions([i \in DOMAIN items |-> 0 - items[i].count], Len(items))
    IN  [k \in DOMAIN order |-> items[order[k]]]

Head_n(items, n) == SubSeq(items, 1, IF Len(items) < n THEN Len(items) ELSE n)

\* LogAnalyzer.detect_patterns
detect_patterns(logs) ==
    LET templates == [i \in DOMAIN logs |-> _normalize_message(logs[i].message)]
        keys == FirstOccurrences(templates)
        all == [k \in DOMAIN keys |->
                  LET at == Positions(templates, keys[k])
                  IN  [template |-> keys[k],
                       count |-> Len(at),
                       level |-> _detect_level(keys[k]),
                       examples |-> Head_n([j \in DOMAIN at |-> logs[at[j]].message], 3),
                       services |-> {logs[at[j]].service : j \in DOMAIN at}]]
    IN  Head_n(SortedByCountDesc(SelectSeq(all, LAMBDA pat : pat.count > 1)), 50)

\* LogAnalyzer.categorize_errors: a dict from the category to its logs
categorize_errors(logs) ==
    LET errs == SelectSeq(logs, LAMBDA log : log.level \in {"error", "critical", "fatal"})
    IN  [c \in {_categorize_error(errs[i].message) : i \in DOMAIN errs} |->
            SelectSeq(errs, LAMBDA log : _categorize_error(log.message) = c)]

\* log["timestamp"][:16]
Minute(s) ==
    CASE s \in {T0, T30, ISO1, DOCKER_TS, "2024-01-01T00:00:02"} -> "2024-01-01T00:00"
      [] s = T120 -> "2024-01-01T00:02"
      [] s = "2024-01-01T00:01:00" -> "2024-01-01T00:01"
      [] s = "2024-01-01T00:03:00" -> "2024-01-01T00:03"
      [] s = "2024-01-01T00:04:00" -> "2024-01-01T00:04"
      [] s = "2024-01-01T00:05:00" -> "2024-01-01T00:05"
      [] s = "2024-01-01T00:06:00" -> "2024-01-01T00:06"
      [] s = "1970-01-01T00:00:01" -> "1970-01-01T00:00"
      [] s = "2000-10-10T13:55:03" -> "2000-10-10T13:55"

\* A detection of spikes that counts the entries of every level.
AnomaliesOfAllLevels(logs) ==
    LET errs == SelectSeq(logs, LAMBDA log : Truthy(Get(log.timestamp, PyNone)))
        minutes == FirstOccurrences([i \in DOMAIN errs |-> Minute(errs[i].timestamp.s)])
        count(m) == Len(SelectSeq(errs, LAMBDA log : Minute(log.timestamp.s) = m))
        spikes == SelectSeq(minutes, LAMBDA m : count(m) * Len(minutes) > Len(errs) * 3)
    IN  [k \in DOMAIN spikes |->
            [type |-> "error_spike", time |-> spikes[k], count |-> count(spikes[k]),
             average |-> [num |-> Len(errs), den |-> Len(minutes)],
             severity |-> "high"]]

\* LogAnalyzer.detect_anomalies; count > avg * 3 with avg = total / minutes
detect_anomalies(logs) ==
    LET errs == SelectSeq(logs, LAMBDA log :
                    /\ Truthy(Get(log.timestamp, PyNone))
                    /\ log.level \in {"error", "critical"})
        minutes == FirstOccurrences([i \in DOMAIN errs |-> Minute(errs[i].timestamp.s)])
        count(m) == Len(SelectSeq(errs, LAMBDA log : Minute(log.timestamp.s) = m))
        spikes == SelectSeq(minutes, LAMBDA m : count(m) * Len(minutes) > Len(errs) * 3)
    IN  [k \in DOMAIN spikes |->
            [type |-> "error_spike", time |-> spikes[k], count |-> count(spikes[k]),
             average |-> [num |-> Len(errs), den |-> Len(minutes)],
             severity |-> "high"]]

\* LogAnalyzer.find_hot_spots
find_hot_spots(logs) ==
    LET errs == SelectSeq(logs, LAMBDA log : log.level \in {"error", "critical"})
        services == FirstOccurrences([i \in DOMAIN errs |-> errs[i].service])
        spots == [k \in DOMAIN services |->
                    [service |-> services[k],
                     count |-> Len(SelectSeq(errs, LAMBDA log : log.service = services[k]))]]
    IN  Head_n(SortedByCountDesc(spots), 10)

\* A variant of the error rate that divides by len(logs) itself; Python
\* raises ZeroDivisionError for a divisor of 0.
ErrorRateUnguarded(errors_seen, total) ==
    [num |-> errors_seen * 100, den |-> total]

\* level_counts.get("error", 0) / max(len(logs), 1) * 100, as num / den
ErrorRate(errors_seen, total) ==
    [num |-> errors_seen * 100, den |-> Max(total, 1)]

\* LogAnalyzer.calculate_statistics
calculate_statistics(logs) ==
    [total |-> Len(logs),
     by_level |-> [l \in {logs[i].level : i \in DOMAIN logs} |->
                      Len(SelectSeq(logs, LAMBDA log : log.level = l))],
     by_service |-> [sv \in {logs[i].service : i \in DOMAIN logs} |->
                      Len(SelectSeq(logs, LAMBDA log : log.service = sv))],
     error_rate |-> ErrorRate(Len(SelectSeq(logs, LAMBDA log : log.level = "error")),
                              Len(logs))]

\* LogAnalyzer.analyze; a division by zero raises ZeroDivisionError
analyze(logs) ==
    LET statistics == calculate_statistics(logs)
    IN  IF statistics.error_rate.den = 0 THEN Raises("ZeroDivisionError")
        ELSE Value([patterns |-> detect_patterns(logs),
                    error_types |-> categorize_errors(logs),
                    anomalies |-> detect_anomalies(logs),
                    hot_spots |-> find_hot_spots(logs),
                    statistics |-> statistics])

-----------------------------------------------------------------------------
(* The inputs of the model. *)

TextAlphabet == {" ", "-", "ERROR", "FATAL", "io", "{", ISO1, ISOBAD, SYSLOG, TRACE}

TextRaws == SeqsUpTo(TextAlphabet, MaxRawLen)

JsonRaws == {<<"{">> \o f \o <<"}">> : f \in SeqsUpTo(JsonFieldToks, MaxJsonFields)}

ServiceHints == {NoKey, PyStr("db")}
TimestampHints == {NoKey, PyStr(DOCKER_TS), PyStr(SYSLOG)}
LevelHints == {NoKey, PyStr("error")}

RawEntries ==
    {RawEntry(r, s, t, l) : r \in TextRaws \cup JsonRaws,
                            s \in ServiceHints, t \in TimestampHints, l \in LevelHints}

\* The raw entries an engine is fed: text and JSON lines of a log file, and
\* lines of a container log, which carry the hints of the Docker adapter.
EngineEntries ==
    { RawEntry(<<ISO1, " ", "ERROR", " ", "io">>, NoKey, NoKey, NoKey),
      RawEntry(<<SPACE2, " ", "ERROR", " ", "io">>, NoKey, NoKey, NoKey),
      RawEntry(<<"ERROR", " ", "io">>, PyStr("db"), PyStr(DOCKER_TS), PyStr("error")),
      RawEntry(<<"io">>, PyStr("db"), PyStr(DOCKER_TS), PyStr("info")),
      RawEntry(<<SYSLOG, " ", "ERROR", " ", "io">>, PyStr("db"), PyStr(SYSLOG), PyStr("error")),
      RawEntry(<<"FATAL", " ", "io">>, PyStr("db"), NoKey, NoKey),
      RawEntry(<<>>, NoKey, NoKey, NoKey),
      RawEntry(<<" ">>, NoKey, NoKey, NoKey),
      RawEntry(<<"{", "ERROR">>, NoKey, NoKey, NoKey),
      RawEntry(<<"{", F_LEVEL_ERROR, F_MESSAGE_IO, "}">>, NoKey, NoKey, NoKey),
      RawEntry(<<"{", F_TS_BIG, "}">>, NoKey, NoKey, NoKey) }

NoEntry == RawEntry(<<>>, NoKey, NoKey, NoKey)
NoResult == [kind |-> "none"]

-----------------------------------------------------------------------------
(* The parser on one raw entry. *)

ParserIdle ==
    /\ lines = <<>> /\ _parsed_logs = <<>> /\ _errors = <<>>
    /\ _error_index = <<>> /\ engine_exc = ""

BatchIdle == errors = <<>> /\ call = "none" /\ result = NoResult

NormIdle == msg = <<>> /\ template = <<>> /\ retemplate = <<>>

DeltaIdle == time_str = <<>> /\ delta = NoResult

IngestIdle == source = NoResult /\ ingested = NoResult

ThreadsIdle ==
    /\ workers = <<>> /\ lock = 0
    /\ thread_results = <<>> /\ thread_errors = <<>>

CrashIdle == db_events = <<>> /\ crash = NoResult /\ traced = NoResult

StreamIdle ==
    /\ batch_size = 0 /\ pending = <<>> /\ buffer = <<>>
    /\ batches = <<>> /\ exhausted = FALSE

LaterIdle == CrashIdle /\ StreamIdle

AuxIdle == NormIdle /\ DeltaIdle /\ IngestIdle /\ ThreadsIdle /\ LaterIdle

InitParser ==
    /\ entry \in RawEntries
    /\ parsed = NotCalled
    /\ ParserIdle
    /\ BatchIdle
    /\ AuxIdle

\* parser.parse(entry)
Parse ==
    /\ parsed = NotCalled
    /\ parsed' = parse(entry)
    /\ UNCHANGED <<entry, engineVars, batchVars, auxVars>>

NextParser == Parse

SpecParser == InitParser /\ [][NextParser]_vars

-----------------------------------------------------------------------------
(* The engine, fed the raw entries of a source batch by batch. *)

InitEngine ==
    /\ lines \in SeqsUpTo(EngineEntries, MaxLines)
    /\ _parsed_logs = <<>>
    /\ _errors = <<>>
    /\ _error_index = <<>>
    /\ engine_exc = ""
    /\ entry = NoEntry /\ parsed = NotCalled
    /\ BatchIdle
    /\ AuxIdle

\* engine.parse_logs(batch), batch the next n raw entries of the source
ParseLogs ==
    \E n \in 0..Len(lines) :
        LET st == parse_logs(SubSeq(lines, 1, n), _error_index)
        IN  /\ lines' = SubSeq(lines, n + 1, Len(lines))
            /\ _parsed_logs' = st.logs
            /\ _error_index' = st.index
            /\ engine_exc' = st.exc
            /\ UNCHANGED <<_errors, parserVars, batchVars, auxVars>>

\* engine.identify_errors(engine._parsed_logs)
IdentifyErrors ==
    LET st == identify_errors(_parsed_logs, _error_index)
    IN  /\ _errors' = IF st.exc = "" THEN st.errors ELSE _errors
        /\ _error_index' = st.index
        /\ engine_exc' = st.exc
        /\ UNCHANGED <<lines, _parsed_logs, parserVars, batchVars, auxVars>>

NextEngine == ParseLogs \/ IdentifyErrors

SpecEngine == InitEngine /\ [][NextEngine]_vars

-----------------------------------------------------------------------------
(* Claims about the parser and the engine. *)

\* (service, message, level) of an entry
Triple(e) == <<e.service, e.message, e.level>>

\* C1: DebugEngine.parse_logs never ends with an exception, whatever the
\* batch: a malformed timestamp, JSON-looking garbage or an empty text is
\* skipped or degraded.
C1_ParseLogsNeverRaises == engine_exc = ""

\* C2: for a raw entry whose text is empty or only whitespace, parse
\* returns None.
C2_BlankTextGivesNone ==
    (parsed # NotCalled /\ Strip(entry.raw) = <<>>) => parsed.kind = "None"

\* C3: every entry parse emits, on the JSON path and on the text path, has
\* a message that is not blank.
C3_MessageNeverBlank ==
    parsed.kind = "ParsedLog" => Strip(parsed.log.message) # <<>>

\* C7: a hinted service, timestamp or level of the raw entry is the service,
\* timestamp and level of the entry parse emits.
C7_HintsPreferred ==
    parsed.kind = "ParsedLog" =>
        /\ entry.service # NoKey => parsed.log.service = entry.service.s
        /\ entry.timestamp # NoKey => parsed.log.timestamp = entry.timestamp
        /\ entry.level # NoKey => parsed.log.level = entry.level.s

\* C8: after parse_logs an entry has an error_id exactly if its level is
\* error or critical, and entries with the same (service, message, level)
\* have the same error_id, within the run and against the ids that earlier
\* runs left in the engine's index.
C8_ErrorIdByContent ==
    /\ \A i \in DOMAIN _parsed_logs :
          _parsed_logs[i].error_id # <<>> <=>
              _parsed_logs[i].level \in {"error", "critical"}
    /\ \A i, j \in DOMAIN _parsed_logs :
          Triple(_parsed_logs[i]) = Triple(_parsed_logs[j]) =>
              _parsed_logs[i].error_id = _parsed_logs[j].error_id
    /\ \A i \in DOMAIN _parsed_logs : \A id \in DOMAIN _error_index :
          Triple(_parsed_logs[i]) = Triple(_error_index[id]) =>
              /\ _parsed_logs[i].error_id = id
              /\ _error_index[id].error_id = id

\* A run that parsed two different lines with one (service, message, level)
\* at error level, in an engine whose index holds an id of an earlier run.
C8_Witness ==
    /\ \E i, j \in DOMAIN _parsed_logs :
          /\ _parsed_logs[i].raw # _parsed_logs[j].raw
          /\ Triple(_parsed_logs[i]) = Triple(_parsed_logs[j])
          /\ _parsed_logs[i].error_id # <<>>
    /\ \E id \in DOMAIN _error_index :
          \A i \in DOMAIN _parsed_logs : _parsed_logs[i].error_id # id

\* C9: the timestamp of an entry parse emits is unset or an instant parsed
\* from the input, never a value that was not parsed.
C9_TimestampUnsetOrParsed ==
    parsed.kind = "ParsedLog" => parsed.log.timestamp.kind \in {"None", "datetime"}

-----------------------------------------------------------------------------
(* The batch operations on a list of error dicts. *)

\* The dict that identify_errors makes of an error line: to_dict() of the
\* ParsedLog with its error_id; timestamp is the isoformat() string, None,
\* or missing where another caller built the dict without the key.
ErrorDict(service, message, level, timestamp, metadata) ==
    LET log == ParsedLog(message, PyNone, level, service, message, metadata)
    IN  [to_dict(log) EXCEPT !.timestamp = timestamp,
                             !.error_id = _generate_error_id(log)]

ServiceMessages ==
    { <<"db", <<"connection", " ", "refused">>>>,
      <<"api", <<"request", " ", "failed">>>>,
      <<"api", <<>>>> }

BatchTimestamps == {NoKey, PyNone, PyStr(T0), PyStr(T30), PyStr(T120)}

BatchErrors ==
    { ErrorDict(sm[1], sm[2], "error", ts, {}) :
        sm \in ServiceMessages, ts \in BatchTimestamps }

\* datetime.now(), in seconds since T0: shortly after the last error, or
\* long after it
Nows == {125, 100000}

EngineIdle == entry = NoEntry /\ parsed = NotCalled /\ ParserIdle

InitBatch ==
    /\ errors \in SeqsUpTo(BatchErrors, MaxBatch)
    /\ call = "none"
    /\ result = NoResult
    /\ EngineIdle
    /\ AuxIdle

\* A correlate that writes the correlations into the entries it was given.
AnnotatedInPlace(es) ==
    [i \in DOMAIN es |->
        [f \in DOMAIN es[i] \cup {"correlations"} |->
            IF f = "correlations" THEN NoGroup ELSE es[i][f]]]

\* The list handed to correlate as the call leaves it: the groupings read
\* it, sorted() makes a new list of it, and the correlations are written to
\* error.copy(), so nothing is assigned to the list or to an entry of it.
InputAfterCorrelate(es) == es

\* ErrorCorrelator().correlate(errors)
Correlate ==
    /\ call = "none"
    /\ \E now \in Nows : result' = correlate(errors, now)
    /\ errors' = InputAfterCorrelate(errors)
    /\ call' = "correlate"
    /\ UNCHANGED <<parserVars, engineVars, auxVars>>

\* ErrorCorrelator().group_related(errors)
GroupRelated ==
    /\ call = "none"
    /\ \E now \in Nows : result' = group_related(errors, now)
    /\ call' = "group_related"
    /\ UNCHANGED <<errors, parserVars, engineVars, auxVars>>

\* ErrorCorrelator().find_root_cause(errors)
FindRootCause ==
    /\ call = "none"
    /\ \E now \in Nows : result' = find_root_cause(errors, now)
    /\ call' = "find_root_cause"
    /\ UNCHANGED <<errors, parserVars, engineVars, auxVars>>

\* TimelineBuilder().build_incident_timeline(errors)
BuildIncidentTimeline ==
    /\ call = "none"
    /\ result' = build_incident_timeline(errors)
    /\ call' = "build_incident_timeline"
    /\ UNCHANGED <<errors, parserVars, engineVars, auxVars>>

\* LogAnalyzer().analyze(errors)
Analyze ==
    /\ call = "none"
    /\ result' = analyze(errors)
    /\ call' = "analyze"
    /\ UNCHANGED <<errors, parserVars, engineVars, auxVars>>

NextBatch ==
    \/ Correlate
    \/ GroupRelated
    \/ FindRootCause
    \/ BuildIncidentTimeline
    \/ Analyze

SpecBatch == InitBatch /\ [][NextBatch]_vars

-----------------------------------------------------------------------------
(* Claims about the batch operations. *)

\* The key by which correlate orders the errors: the timestamp, then the
\* position in the input.
SortsBefore(a, b) ==
    \/ StrRank(TimestampKey(a).s) < StrRank(TimestampKey(b).s)
    \/ StrRank(TimestampKey(a).s) = StrRank(TimestampKey(b).s) /\ a.index < b.index

\* C4: in the result of correlate the chain position strictly increases
\* with (timestamp, input index): of two entries the one that sorts first
\* has the smaller chain position, also when both carry the same error_id.
C4_ChainPositionStrictlyIncreases ==
    (call = "correlate" /\ result.kind = "value") =>
        \A i, j \in DOMAIN result.v :
            SortsBefore(result.v[i], result.v[j]) =>
                result.v[i].correlations.chain_position
                    < result.v[j].correlations.chain_position

\* N errors with strictly increasing timestamps, no trace or request id in
\* common and no word in common between two messages.
IndependentIncreasing(es) ==
    /\ \A i \in DOMAIN es : es[i].timestamp.kind = "str"
    /\ \A i, j \in DOMAIN es :
          i < j =>
            /\ StrRank(es[i].timestamp.s) < StrRank(es[j].timestamp.s)
            /\ MetaGet(es[i], "trace_id") = <<>> \/
                  MetaGet(es[i], "trace_id") # MetaGet(es[j], "trace_id")
            /\ MetaGet(es[i], "request_id") = <<>> \/
                  MetaGet(es[i], "request_id") # MetaGet(es[j], "request_id")
            /\ Words(es[i].message) \cap Words(es[j].message) = {}

\* C5: correlate gives N errors with strictly increasing timestamps, no
\* shared ids and no message overlap the chain position that is their
\* 0-based rank in timestamp order.
C5_ChainPositionIsRank ==
    (call = "correlate" /\ IndependentIncreasing(errors)) =>
        /\ result.kind = "value"
        /\ \A k \in DOMAIN result.v :
              result.v[k].correlations.chain_position = result.v[k].index - 1

\* an error that has no timestamp: the key is missing, or its value is None
Timestampless(e) == e.timestamp.kind \in {"absent", "None"}

\* C6: correlate, group_related, find_root_cause and build_incident_timeline
\* do not raise on a list that mixes errors with and without a timestamp;
\* in the result of correlate the errors without a timestamp come first and
\* have no time group.
C6_MixedTimestampsDoNotRaise ==
    /\ call \in {"correlate", "group_related", "find_root_cause",
                 "build_incident_timeline"} => result.kind = "value"
    /\ (call = "correlate" /\ result.kind = "value") =>
          \A i, j \in DOMAIN result.v :
              /\ Timestampless(result.v[i]) =>
                    result.v[i].correlations.time_group = NoGroup
              /\ (Timestampless(result.v[i]) /\ ~Timestampless(result.v[j])) => i < j

\* C10: on an empty batch analyze, correlate, group_related,
\* find_root_cause and build_incident_timeline return the empty result: no
\* patterns, categories, anomalies or hot spots and a total and an error
\* rate of 0; an empty list; no groups; None; no events and no analysis.
C10_EmptyBatchGivesEmptyResult ==
    (errors = <<>> /\ call # "none") =>
        /\ result.kind = "value"
        /\ call \in {"correlate", "group_related", "find_root_cause"} => result.v = <<>>
        /\ call = "build_incident_timeline" =>
              /\ DOMAIN result.v = {"events", "analysis"}
              /\ result.v.events = <<>>
              /\ DOMAIN result.v.analysis = {}
        /\ call = "analyze" =>
              /\ result.v.patterns = <<>>
              /\ DOMAIN result.v.error_types = {}
              /\ result.v.anomalies = <<>>
              /\ result.v.hot_spots = <<>>
              /\ result.v.statistics.total = 0
              /\ DOMAIN result.v.statistics.by_level = {}
              /\ DOMAIN result.v.statistics.by_service = {}
              /\ result.v.statistics.error_rate.num = 0

C10_Witness ==
    errors = <<>> /\ call = "analyze" /\ result.kind = "value"

-----------------------------------------------------------------------------
(* LogAnalyzer._normalize_message on one message, and on its own result. *)

MaxNormWords == 2

\* The words of a message: plain text, and the values the normaliser is to
\* abstract (numbers, UUIDs, 0x-hex, dotted-quad IPs, quoted strings).
NormTokens ==
    {"user", "42", "7", "0x1f", "0xff", "10.0.0.1", "192.168.1.1",
     UUID_DIGITS, UUID_LETTERS, UUID_ZERO, "'x'", "'42'", "\"x\""}

\* The words separated by single spaces.
Spaced(ws) ==
    [i \in 1..(IF ws = <<>> THEN 0 ELSE 2 * Len(ws) - 1) |->
        IF i % 2 = 1 THEN ws[(i + 1) \div 2] ELSE " "]

NormMessages == {Spaced(ws) : ws \in SeqsUpTo(NormTokens, MaxNormWords)}

InitNormalize ==
    /\ msg \in NormMessages
    /\ template = <<>>
    /\ retemplate = <<>>
    /\ DeltaIdle /\ IngestIdle /\ ThreadsIdle /\ LaterIdle
    /\ EngineIdle
    /\ BatchIdle

\* template = self._normalize_message(msg)
Normalize ==
    /\ template = <<>>
    /\ template' = <<_normalize_message(msg)>>
    /\ UNCHANGED <<msg, retemplate, deltaVars, ingestVars, threadVars, crashVars, streamVars,
                   parserVars, engineVars, batchVars>>

\* self._normalize_message(template)
NormalizeAgain ==
    /\ template # <<>>
    /\ retemplate = <<>>
    /\ retemplate' = <<_normalize_message(template[1])>>
    /\ UNCHANGED <<msg, template, deltaVars, ingestVars, threadVars, crashVars, streamVars,
                   parserVars, engineVars, batchVars>>

NextNormalize == Normalize \/ NormalizeAgain

SpecNormalize == InitNormalize /\ [][NextNormalize]_vars

\* What kind of value a word of a message is.
ValueKind(t) ==
    CASE t \in {"42", "7"} -> "number"
      [] t \in {UUID_DIGITS, UUID_LETTERS, UUID_ZERO} -> "uuid"
      [] t \in {"0x1f", "0xff"} -> "hex"
      [] t \in {"10.0.0.1", "192.168.1.1"} -> "ip"
      [] t \in {"'x'", "'42'", "\"x\""} -> "quoted"
      [] OTHER -> "text"

\* Two messages that differ only in the values of their embedded numbers,
\* UUIDs, hex literals, IPs and quoted strings.
DifferOnlyInValues(a, b) ==
    /\ Len(a) = Len(b)
    /\ \A i \in DOMAIN a :
          /\ ValueKind(a[i]) = ValueKind(b[i])
          /\ ValueKind(a[i]) = "text" => a[i] = b[i]

\* C11: two messages that differ only in the value of an embedded number,
\* UUID, 0x-hex literal, dotted-quad IP or quoted string normalise to the same
\* template, in which every UUID reads <UUID>, every hex literal <HEX> and
\* every IP <IP>.
C11_ValuesShareTemplate ==
    template # <<>> =>
        /\ \A other \in NormMessages :
              DifferOnlyInValues(msg, other)
                  => _normalize_message(other) = template[1]
        /\ \A i \in DOMAIN msg :
              /\ ValueKind(msg[i]) = "uuid" => template[1][i] = "<UUID>"
              /\ ValueKind(msg[i]) = "hex" => template[1][i] = "<HEX>"
              /\ ValueKind(msg[i]) = "ip" => template[1][i] = "<IP>"

\* C12: normalising a template again leaves it as it is.
C12_NormalizeIdempotent == retemplate # <<>> => retemplate = template

C12_Witness ==
    /\ retemplate # <<>>
    /\ template[1] # msg
    /\ \E i \in DOMAIN msg : ValueKind(msg[i]) = "hex"
    /\ \E i \in DOMAIN msg : ValueKind(msg[i]) = "quoted"

-----------------------------------------------------------------------------
(* The batch operations on errors that carry trace ids: the dicts that     *)
(* identify_errors makes of JSON lines with a trace_id field, which goes   *)
(* to metadata and not into the message.                                   *)

MaxTraceBatch == 3

TraceMetadata == {{}, {<<"trace_id", <<"abc">>>>}, {<<"trace_id", <<"def">>>>}}

TraceErrors ==
    { ErrorDict(sm[1], sm[2], "error", ts, md) :
        sm \in { <<"db", <<"connection", " ", "refused">>>>,
                 <<"api", <<"request", " ", "failed">>>> },
        ts \in {PyStr(T0), PyStr(T120)},
        md \in TraceMetadata }

InitTrace ==
    /\ errors \in SeqsUpTo(TraceErrors, MaxTraceBatch)
    /\ call = "none"
    /\ result = NoResult
    /\ EngineIdle
    /\ AuxIdle

SpecTrace == InitTrace /\ [][NextBatch]_vars

\* The positions of the members of a group of group_related.
Members(group) == { group[k].pos : k \in DOMAIN group }

\* C13: two errors that share a non-empty trace id are in the same group of
\* group_related, whatever their timestamps and messages and whatever else
\* the batch holds.
C13_SameTraceSameGroup ==
    call = "group_related" =>
        \A i, j \in DOMAIN errors :
            /\ MetaGet(errors[i], "trace_id") # <<>>
            /\ MetaGet(errors[i], "trace_id") = MetaGet(errors[j], "trace_id")
            => \E g \in DOMAIN result.v : {i, j} \subseteq Members(result.v[g])

C13_Witness ==
    /\ call = "group_related"
    /\ Len(result.v) = 2
    /\ \E i, j \in DOMAIN errors :
          /\ MetaGet(errors[i], "trace_id") = <<"abc">>
          /\ MetaGet(errors[j], "trace_id") = <<"abc">>
          /\ errors[i].service # errors[j].service
          /\ errors[i].timestamp # errors[j].timestamp
          /\ \E g \in DOMAIN result.v : Members(result.v[g]) = {i, j}

\* The trace ids of a batch in the order of their first occurrence.
RECURSIVE TraceIdsFrom(_, _)
TraceIdsFrom(es, i) ==
    IF i = 0 THEN <<>>
    ELSE LET before == TraceIdsFrom(es, i - 1)
             trace_id == MetaGet(es[i], "trace_id")
         IN  IF trace_id = <<>> \/ \E k \in DOMAIN before : before[k] = trace_id
             THEN before
             ELSE Append(before, trace_id)

\* C20: correlate gives two errors the same trace group exactly when both
\* carry the same non-empty trace id; the groups are numbered trace_0,
\* trace_1, ... in the order in which their trace ids first occur; an error
\* without trace id has no trace group, also where another error with the
\* same error_id carries one.
C20_TraceGroupByTraceId ==
    call = "correlate" /\ result.kind = "value" =>
        LET ids == TraceIdsFrom(errors, Len(errors))
        IN  \A x \in DOMAIN result.v :
                LET c == result.v[x]
                    trace_id == MetaGet(c.error, "trace_id")
                IN  /\ trace_id = <<>> => c.correlations.trace_group = NoGroup
                    /\ trace_id # <<>> =>
                          \E n \in DOMAIN ids :
                              /\ ids[n] = trace_id
                              /\ c.correlations.trace_group = <<"trace", n - 1>>

-----------------------------------------------------------------------------
(* Claims about find_root_cause and the order of correlate. *)

\* The scores find_root_cause gives the errors of the batch at the instant now.
Scores(now) ==
    [i \in DOMAIN errors |-> _calculate_root_cause_score(errors[i], errors, now).num]

InOrder(x, y) ==
    \/ x.correlations.chain_position < y.correlations.chain_position
    \/ /\ x.correlations.chain_position = y.correlations.chain_position
       /\ \/ TimestampKey(x) = TimestampKey(y)
          \/ /\ TimestampKey(x).kind # "None" /\ TimestampKey(y).kind # "None"
             /\ StrRank(TimestampKey(x).s) <= StrRank(TimestampKey(y).s)

\* C15: the list correlate returns is ascending by (chain position,
\* timestamp): of two consecutive entries the first has the smaller chain
\* position, or the same one and a timestamp that is not later.
C15_CorrelatedAscending ==
    call = "correlate" /\ result.kind = "value" =>
        \A k \in 1..(Len(result.v) - 1) : InOrder(result.v[k], result.v[k + 1])

C15_Witness ==
    /\ call = "correlate" /\ result.kind = "value"
    /\ Len(result.v) = 3
    /\ result.v[1].index > result.v[2].index
    /\ \E k \in 1..2 :
          /\ result.v[k].correlations.chain_position
                = result.v[k + 1].correlations.chain_position
          /\ TimestampKey(result.v[k]) # TimestampKey(result.v[k + 1])
    /\ \E k \in 1..2 :
          result.v[k].correlations.chain_position
              < result.v[k + 1].correlations.chain_position

-----------------------------------------------------------------------------
(* Claims about the engine across batches. *)

\* C17: the engine keeps no state from one batch to the next: after a batch
\* B1 and then a batch B2 its state is that of a fresh engine that processed
\* B2 alone, so _error_index holds only ids of the logs of the batch parsed
\* last.
C17_NoStateAcrossBatches ==
    engine_exc = "" =>
        \A id \in DOMAIN _error_index :
            \E i \in DOMAIN _parsed_logs : id = _generate_error_id(_parsed_logs[i])

-----------------------------------------------------------------------------
(* TimelineBuilder._parse_time_delta *)

MaxTimeTokens == 3

\* int(match.group(1)) of a run of digits
IntValue(t) ==
    CASE t = "5" -> 5
      [] t = "90" -> 90
      [] t = "1000000000" -> 1000000000

IsNumberTok(t) == t \in {"5", "90", "1000000000"}

\* Whether the token starts with one of the letters of [mhds], and which.
UnitOf(t) ==
    CASE t \in {"m", "min"} -> "m"
      [] t = "h" -> "h"
      [] t = "d" -> "d"
      [] t = "s" -> "s"
      [] OTHER -> ""

\* datetime.timedelta(unit=value) for value >= 0, normalised to days and
\* seconds as Python keeps it; more than 999999999 days is an OverflowError.
timedelta(unit, value) ==
    LET days == CASE unit = "m" -> value \div 1440
                  [] unit = "h" -> value \div 24
                  [] unit = "d" -> value
                  [] unit = "s" -> value \div 86400
        seconds == CASE unit = "m" -> (value % 1440) * 60
                     [] unit = "h" -> (value % 24) * 3600
                     [] unit = "d" -> 0
                     [] unit = "s" -> value % 86400
    IN  IF days > 999999999 THEN Raises("OverflowError")
        ELSE Value([days |-> days, seconds |-> seconds])

\* re.match(r"(\d+)\s*([mhds])", s): the positions of the number and of the
\* token the unit letter starts, <<>> if there is no match.
TimeDeltaMatch(s) ==
    IF s = <<>> \/ ~IsNumberTok(s[1]) THEN <<>>
    ELSE LET rest == { j \in 2..Len(s) : ~IsSpace(s[j]) }
         IN  IF rest = {} THEN <<>>
             ELSE IF UnitOf(s[MinOf(rest)]) = "" THEN <<>>
             ELSE <<1, MinOf(rest)>>

\* TimelineBuilder._parse_time_delta
_parse_time_delta(s) ==
    LET str == Strip([i \in DOMAIN s |-> Lower(s[i])])
        match == TimeDeltaMatch(str)
    IN  IF match = <<>> THEN timedelta("m", 5)
        ELSE timedelta(UnitOf(str[match[2]]), IntValue(str[match[1]]))

TimeTokens ==
    {"5", "90", "1000000000", "m", "h", "d", "s", "M", "min", " ", "x", "bogus"}

\* The time strings: at most one run of digits in each.
TimeStrs ==
    { s \in SeqsUpTo(TimeTokens, MaxTimeTokens) :
        Cardinality({ i \in DOMAIN s : IsNumberTok(s[i]) }) <= 1 }

InitDelta ==
    /\ time_str \in TimeStrs
    /\ delta = NoResult
    /\ NormIdle /\ IngestIdle /\ ThreadsIdle /\ LaterIdle
    /\ EngineIdle
    /\ BatchIdle

\* delta = self._parse_time_delta(time_str)
ParseTimeDelta ==
    /\ delta = NoResult
    /\ delta' = _parse_time_delta(time_str)
    /\ UNCHANGED <<time_str, normVars, ingestVars, threadVars, crashVars, streamVars,
                   parserVars, engineVars, batchVars>>

NextDelta == ParseTimeDelta

SpecDelta == InitDelta /\ [][NextDelta]_vars

\* <number><unit> with a unit of m, h, d, s; upper case and white space
\* around the two parts are let pass.
NumberUnitForm(s) ==
    LET str == Strip([i \in DOMAIN s |-> Lower(s[i])])
    IN  /\ Len(str) >= 2
        /\ IsNumberTok(str[1])
        /\ str[Len(str)] \in {"m", "h", "d", "s"}
        /\ \A i \in 2..(Len(str) - 1) : IsSpace(str[i])

\* C19: _parse_time_delta maps <number><unit> to that many minutes, hours,
\* days or seconds, and every other string to 5 minutes, and raises nothing.
C19_TimeDeltaOrDefault ==
    delta # NoResult =>
        /\ delta.kind = "value"
        /\ LET str == Strip([i \in DOMAIN time_str |-> Lower(time_str[i])])
               value == IntValue(str[1])
               unit == str[Len(str)]
           IN  IF NumberUnitForm(time_str)
               THEN delta.v = CASE unit = "m" -> [days |-> value \div 1440,
                                                  seconds |-> (value % 1440) * 60]
                                [] unit = "h" -> [days |-> value \div 24,
                                                  seconds |-> (value % 24) * 3600]
                                [] unit = "d" -> [days |-> value, seconds |-> 0]
                                [] unit = "s" -> [days |-> value \div 86400,
                                                  seconds |-> value % 86400]
               ELSE delta.v = [days |-> 0, seconds |-> 300]

-----------------------------------------------------------------------------
(* The ingestion adapters: FileIngester, DockerIngester, StreamIngester.   *)
(* A raw entry keeps the keys the parser reads (raw, service, timestamp,   *)
(* level) and the flag error; source, line_number, image and message are   *)
(* left out.  What a generator yields is the list of the entries yielded.  *)

MaxIngestLines == 2

IngestEntry(raw, service, timestamp, level, error) ==
    [raw |-> raw, service |-> service, timestamp |-> timestamp, level |-> level,
     error |-> error]

\* str(e) of the exceptions a source that cannot be read gives
E_NOENT == "[Errno 2] No such file or directory: 'app.log'"
E_PERM == "[Errno 13] Permission denied: 'app.log'"
E_DOCKER == "No such container: web"
E_HTTP == "[Errno 111] Connection refused"

\* The lines of a source.
IngestLines ==
    { <<"ERROR", " ", "io">>, <<"io">>, <<" ">>, <<DOCKER_TS, " ", "ERROR">> }

\* The level words inside token.upper()
UpperWords(t) ==
    CASE t \in {"ERROR", "Error", "error"} -> {"ERROR", "ERR"}
      [] t = "FATAL" -> {"FATAL"}
      [] OTHER -> {}

\* any(word in line.upper() for word in words)
AnyWordIn(line, words) == \E i \in DOMAIN line : UpperWords(line[i]) \cap words # {}

\* FileIngester._extract_timestamp: match.group() of the first pattern that
\* matches, None (NoKey: the key is not set) without a match
FileExtractTimestamp(line) ==
    IF \E i \in DOMAIN line : line[i] \in {ISO1, DOCKER_TS}
    THEN LET i == MinOf({ k \in DOMAIN line : line[k] \in {ISO1, DOCKER_TS} })
         IN  PyStr(IF line[i] = DOCKER_TS THEN T0 ELSE ISO1)
    ELSE IF \E i \in DOMAIN line : line[i] = SYSLOG THEN PyStr(SYSLOG)
    ELSE NoKey

\* FileIngester._extract_level
FileExtractLevel(line) ==
    IF AnyWordIn(line, {"ERROR", "ERR", "FATAL", "CRITICAL"}) THEN PyStr("error")
    ELSE IF AnyWordIn(line, {"WARN", "WARNING"}) THEN PyStr("warn")
    ELSE IF AnyWordIn(line, {"INFO", "NOTICE"}) THEN PyStr("info")
    ELSE IF AnyWordIn(line, {"DEBUG", "TRACE"}) THEN PyStr("debug")
    ELSE NoKey

\* The lines of a file, stripped, the blank ones left out.
RECURSIVE StrippedLines(_)
StrippedLines(content) ==
    IF content = <<>> THEN <<>>
    ELSE LET line == Strip(Head(content))
         IN  (IF line = <<>> THEN <<>> ELSE <<line>>) \o StrippedLines(Tail(content))

\* FileIngester._parse_file_content of app.log: the service is the stem of
\* the path.
_parse_file_content(content) ==
    LET ls == StrippedLines(content)
    IN  [i \in DOMAIN ls |->
            IngestEntry(ls[i], PyStr("app"), FileExtractTimestamp(ls[i]),
                        FileExtractLevel(ls[i]), FALSE)]

\* FileIngester._read_file
_read_file(src) ==
    IF src.state = "ok" THEN _parse_file_content(src.content)
    ELSE << IngestEntry(<<"Error", " ", "reading", " ", "app.log", ":", " ", E_PERM>>,
                        NoKey, NoKey, NoKey, TRUE) >>

\* FileIngester._filter_logs with levels alone: l.get("level") in levels
_filter_logs(logs, levels) ==
    SelectSeq(logs, LAMBDA l : l.level.kind = "str" /\ l.level.s \in levels)

\* FileIngester.ingest(path, levels=levels)
FileIngest(src) ==
    IF src.state = "missing" THEN Raises("FileNotFoundError")
    ELSE LET logs == _read_file(src)
         IN  Value(IF src.levels # {} THEN _filter_logs(logs, src.levels) ELSE logs)

\* FileIngester._iter_file, through ingest_streaming
_iter_file(src) ==
    IF src.state = "ok"
    THEN LET ls == StrippedLines(src.content)
         IN  [i \in DOMAIN ls |-> IngestEntry(ls[i], NoKey, NoKey, NoKey, FALSE)]
    ELSE << IngestEntry(<<"Error", ":", " ",
                          IF src.state = "missing" THEN E_NOENT ELSE E_PERM>>,
                        NoKey, NoKey, NoKey, TRUE) >>

\* DockerIngester._detect_level
DockerDetectLevel(message) ==
    IF AnyWordIn(message, {"ERROR", "FATAL", "CRITICAL", "EXCEPTION"}) THEN "error"
    ELSE IF AnyWordIn(message, {"WARN", "WARNING"}) THEN "warn"
    ELSE IF AnyWordIn(message, {"DEBUG", "TRACE"}) THEN "debug"
    ELSE "info"

\* DockerIngester._parse_docker_log of a line of the container web
_parse_docker_log(line) ==
    IF Len(line) > 1 /\ line[1] = DOCKER_TS
    THEN LET message == Strip(SubSeq(line, 3, Len(line)))
         IN  IngestEntry(message, PyStr("web"), PyStr(DOCKER_TS),
                         PyStr(DockerDetectLevel(message)), FALSE)
    ELSE IngestEntry(line, PyStr("web"), NoKey, PyStr(DockerDetectLevel(line)), FALSE)

\* The entries of the lines of a container's log that are not blank.
DockerEntries(content) ==
    LET ls == SelectSeq(content, LAMBDA line : Strip(line) # <<>>)
    IN  [i \in DOMAIN ls |-> _parse_docker_log(ls[i])]

\* DockerIngester.ingest(container): _get_client() is called before the try
DockerIngest(src) ==
    IF src.state = "no_client" THEN Raises("RuntimeError")
    ELSE IF src.state = "ok" THEN Value(DockerEntries(src.content))
    ELSE Value(<< IngestEntry(<<"Error", " ", "fetching", " ", "logs", " ", "from",
                                " ", "web", ":", " ", E_DOCKER>>,
                              NoKey, NoKey, PyStr("error"), TRUE) >>)

\* DockerIngester.stream(container)
DockerStream(src) ==
    IF src.state = "no_client" THEN Raises("RuntimeError")
    ELSE IF src.state = "ok" THEN Value(DockerEntries(src.content))
    ELSE Value(<< IngestEntry(<<"Stream", " ", "error", ":", " ", E_DOCKER>>,
                              NoKey, NoKey, PyStr("error"), TRUE) >>)

\* StreamIngester._parse_line
_parse_line(line) ==
    IngestEntry(line, NoKey, NoKey,
                PyStr(IF AnyWordIn(line, {"ERROR", "FATAL"}) THEN "error"
                      ELSE IF AnyWordIn(line, {"WARN"}) THEN "warn"
                      ELSE IF AnyWordIn(line, {"DEBUG"}) THEN "debug"
                      ELSE "info"),
                FALSE)

StreamEntries(content) ==
    LET ls == StrippedLines(content)
    IN  [i \in DOMAIN ls |-> _parse_line(ls[i])]

\* StreamIngester._stream_file: open() is inside a try that catches
\* KeyboardInterrupt only; content is what is appended to the file.
_stream_file(src) ==
    IF src.state = "missing" THEN Raises("FileNotFoundError")
    ELSE IF src.state = "unreadable" THEN Raises("PermissionError")
    ELSE Value(StreamEntries(src.content))

\* StreamIngester._stream_http: content is what arrived before the failure.
_stream_http(src) ==
    IF src.state = "ok" THEN Value(StreamEntries(src.content))
    ELSE Value(Append(StreamEntries(src.content),
                      IngestEntry(<<"Stream", " ", "error", ":", " ", E_HTTP>>,
                                  NoKey, NoKey, PyStr("error"), TRUE)))

\* The states a source of each adapter can be in.
SourceStates ==
    [file_ingest |-> {"ok", "missing", "unreadable"},
     file_ingest_streaming |-> {"ok", "missing", "unreadable"},
     docker_ingest |-> {"ok", "no_client", "no_container"},
     docker_stream |-> {"ok", "no_client", "no_container"},
     stream_file |-> {"ok", "missing", "unreadable"},
     stream_http |-> {"ok", "failing"}]

Sources ==
    { [adapter |-> a, state |-> st, content |-> c, levels |-> lv] :
        a \in DOMAIN SourceStates,
        st \in UNION { SourceStates[a] : a \in DOMAIN SourceStates },
        c \in SeqsUpTo(IngestLines, MaxIngestLines),
        lv \in {{}, {"error"}} }

InitIngest ==
    /\ source \in { src \in Sources :
                      /\ src.state \in SourceStates[src.adapter]
                      /\ src.levels # {} => src.adapter = "file_ingest" }
    /\ ingested = NoResult
    /\ NormIdle /\ DeltaIdle /\ ThreadsIdle /\ LaterIdle
    /\ EngineIdle
    /\ BatchIdle

Ingested(r) ==
    /\ ingested = NoResult
    /\ ingested' = r
    /\ UNCHANGED <<source, normVars, deltaVars, threadVars, crashVars, streamVars,
                   parserVars, engineVars, batchVars>>

\* FileIngester().ingest(path, levels=levels)
IngestFile == source.adapter = "file_ingest" /\ Ingested(FileIngest(source))

\* list(FileIngester().ingest_streaming(path))
IngestFileStreaming ==
    source.adapter = "file_ingest_streaming" /\ Ingested(Value(_iter_file(source)))

\* DockerIngester().ingest(container)
IngestDocker == source.adapter = "docker_ingest" /\ Ingested(DockerIngest(source))

\* list(DockerIngester().stream(container))
StreamDocker == source.adapter = "docker_stream" /\ Ingested(DockerStream(source))

\* StreamIngester().stream(path)
StreamFile == source.adapter = "stream_file" /\ Ingested(_stream_file(source))

\* StreamIngester().stream(url)
StreamHttp == source.adapter = "stream_http" /\ Ingested(_stream_http(source))

NextIngest ==
    \/ IngestFile
    \/ IngestFileStreaming
    \/ IngestDocker
    \/ StreamDocker
    \/ StreamFile
    \/ StreamHttp

SpecIngest == InitIngest /\ [][NextIngest]_vars

\* C16: from a source that cannot be read (a missing or unreadable file, an
\* unreachable Docker daemon or container, a failing stream) the adapter
\* raises nothing and hands back a synthetic raw entry with the failure text,
\* which the parser classifies at error level.
C16_UnreadableSourceGivesErrorEntry ==
    ingested # NoResult /\ source.state # "ok" =>
        /\ ingested.kind = "value"
        /\ \E i \in DOMAIN ingested.v :
              /\ ingested.v[i].error
              /\ parse(ingested.v[i]).kind = "ParsedLog"
              /\ parse(ingested.v[i]).log.level = "error"

-----------------------------------------------------------------------------
(* Parsing from several threads (test_concurrent_parsing): every thread    *)
(* has its own LogParser and its own lists, and adds them to the shared    *)
(* lists under the lock.                                                   *)

MaxThreadLogs == 2

Threads == {1, 2}

ThreadService(t) == IF t = 1 THEN "service-1" ELSE "service-2"

\* The raw lines a thread parses: one like generate_log_entry makes them, an
\* empty one, and a JSON line on which parse raises.
ThreadRaws == { <<ISO1, " ", "ERROR", " ", "io">>, <<>>, <<"{", F_TS_BIG, "}">> }

\* generate_log_entry: the raw line with the hints service and timestamp
ThreadEntry(t, raw) == RawEntry(raw, PyStr(ThreadService(t)), PyStr(ISO1), NoKey)

\* An assignment in the place of list.extend.
ExtendOverwrites(list, more) == more

\* list.extend
Extend(list, more) == list \o more

\* for i in range(logs_per_thread): parser.parse(log_entry), on the first n
\* inputs: the entries appended to local_results
RECURSIVE LocalResults(_, _, _)
LocalResults(t, inputs, n) ==
    IF n = 0 THEN <<>>
    ELSE LET r == parse(ThreadEntry(t, inputs[n]))
         IN  LocalResults(t, inputs, n - 1)
                \o (IF r.kind = "ParsedLog" THEN <<r.log>> ELSE <<>>)

InitThreads ==
    /\ workers \in { [t \in Threads |->
                        [inputs |-> f[t], i |-> 1, local_results |-> <<>>,
                         local_errors |-> <<>>, pc |-> "parse"]] :
                     f \in [Threads -> SeqsUpTo(ThreadRaws, MaxThreadLogs)] }
    /\ lock = 0
    /\ thread_results = <<>>
    /\ thread_errors = <<>>
    /\ NormIdle /\ DeltaIdle /\ IngestIdle /\ LaterIdle
    /\ EngineIdle
    /\ BatchIdle

otherVars ==
    <<normVars, deltaVars, ingestVars, parserVars, engineVars, batchVars,
      crashVars, streamVars>>

\* One turn of the loop of thread t: parsed = parser.parse(log_entry)
ParseNext ==
    \E t \in Threads :
        LET w == workers[t] IN
        /\ w.pc = "parse" /\ w.i <= Len(w.inputs)
        /\ LET r == parse(ThreadEntry(t, w.inputs[w.i])) IN
           workers' = [workers EXCEPT ![t] =
               [w EXCEPT !.i = w.i + 1,
                         !.local_results =
                             IF r.kind = "ParsedLog" THEN Append(@, r.log) ELSE @,
                         !.local_errors =
                             IF r.kind = "raise" THEN Append(@, r.exc) ELSE @]]
        /\ UNCHANGED <<lock, thread_results, thread_errors, otherVars>>

\* with lock:
Acquire ==
    \E t \in Threads :
        /\ workers[t].pc = "parse" /\ workers[t].i > Len(workers[t].inputs)
        /\ lock = 0
        /\ lock' = t
        /\ workers' = [workers EXCEPT ![t].pc = "locked"]
        /\ UNCHANGED <<thread_results, thread_errors, otherVars>>

\* results.extend(local_results)
ExtendResults ==
    \E t \in Threads :
        /\ workers[t].pc = "locked"
        /\ thread_results' = Extend(thread_results, workers[t].local_results)
        /\ workers' = [workers EXCEPT ![t].pc = "results"]
        /\ UNCHANGED <<lock, thread_errors, otherVars>>

\* errors.extend(local_errors)
ExtendErrors ==
    \E t \in Threads :
        /\ workers[t].pc = "results"
        /\ thread_errors' = Extend(thread_errors, workers[t].local_errors)
        /\ workers' = [workers EXCEPT ![t].pc = "errors"]
        /\ UNCHANGED <<lock, thread_results, otherVars>>

\* the end of the with block
Release ==
    \E t \in Threads :
        /\ workers[t].pc = "errors"
        /\ lock' = 0
        /\ workers' = [workers EXCEPT ![t].pc = "done"]
        /\ UNCHANGED <<thread_results, thread_errors, otherVars>>

NextThreads ==
    \/ ParseNext
    \/ Acquire
    \/ ExtendResults
    \/ ExtendErrors
    \/ Release

SpecThreads == InitThreads /\ [][NextThreads]_vars

\* The entries of thread t in the shared list.
ResultsOf(t) ==
    SelectSeq(thread_results, LAMBDA log : log.service = ThreadService(t))

AllDone == \A t \in Threads : workers[t].pc = "done"

RECURSIVE SumOver(_, _)
SumOver(S, f) ==
    IF S = {} THEN 0
    ELSE LET x == CHOOSE y \in S : TRUE IN f[x] + SumOver(S \ {x}, f)

-----------------------------------------------------------------------------
(* Claims about the time groups of correlate. *)

\* The positions of the errors that have a timestamp, in timestamp order.
TimedOrder(es) ==
    SelectSeq(SortedByTimestamp(es), LAMBDA i : Truthy(Get(es[i].timestamp, PyNone)))

\* The number of the time group of the k-th timestamped error when a new
\* group starts exactly where the gap to the previous one exceeds the window.
RECURSIVE WalkGroup(_, _, _, _)
WalkGroup(es, order, k, now) ==
    IF k = 1 THEN 0
    ELSE LET gap == _parse_timestamp(es[order[k]].timestamp.s, now)
                      - _parse_timestamp(es[order[k - 1]].timestamp.s, now)
         IN  WalkGroup(es, order, k - 1, now) + (IF gap > time_window THEN 1 ELSE 0)

\* C21: the time groups follow the walk over the errors in timestamp order:
\* the first timestamped error is in time_0, a new group starts exactly where
\* the gap to the previous timestamped error exceeds the window, and an error
\* without timestamp has no time group.
C21_TimeGroupsFollowGaps ==
    call = "correlate" /\ result.kind = "value" =>
        \E now \in Nows :
            LET order == TimedOrder(errors)
            IN  \A x \in DOMAIN result.v :
                    LET c == result.v[x]
                    IN  IF Truthy(Get(c.timestamp, PyNone))
                        THEN \E k \in DOMAIN order :
                                /\ order[k] = c.index
                                /\ c.correlations.time_group
                                     = <<"time", WalkGroup(errors, order, k, now)>>
                        ELSE c.correlations.time_group = NoGroup

-----------------------------------------------------------------------------
(* Claims about the relatedness test. *)

\* The error has a timestamp that one of the formats parses: its time does
\* not depend on the clock.
HasParsedTime(e) ==
    /\ e.timestamp.kind = "str"
    /\ \A n1, n2 \in Nows :
          _parse_timestamp(e.timestamp.s, n1) = _parse_timestamp(e.timestamp.s, n2)

\* C22: two errors without trace id and request id are grouped together
\* exactly if both have a parsed timestamp, the timestamps are within the
\* window and the words of the messages overlap by more than 0.3.
C22_RelatedByTimeAndWords ==
    /\ call = "group_related"
    /\ result.kind = "value"
    /\ Len(errors) = 2
    /\ \A i \in DOMAIN errors :
          MetaGet(errors[i], "trace_id") = <<>> /\ MetaGet(errors[i], "request_id") = <<>>
    => ( Len(result.v) = 1
           <=> /\ HasParsedTime(errors[1]) /\ HasParsedTime(errors[2])
               /\ \E now \in Nows :
                     Abs(_parse_timestamp(errors[1].timestamp.s, now)
                           - _parse_timestamp(errors[2].timestamp.s, now)) < time_window
               /\ Overlaps(errors[1].message, errors[2].message) )

-----------------------------------------------------------------------------
(* Claims about the root-cause score. *)

\* The service and message components of the score of an error.
FixedScore(error) ==
    (IF error.service \in DbServices THEN 30
     ELSE IF error.service \in InfraServices THEN 20 ELSE 0)
    + (IF HasRootCauseTerm(error.message) THEN 25 ELSE 0)

\* C23: the score of every error of the batch is its service and message
\* components plus a time component between 0 and 50, and so never below 0;
\* of the db error 'connection refused' at 0 s and the api error 'request
\* failed' at 30 s find_root_cause returns the db error.
C23_ScoreIsSumOfComponents ==
    call = "find_root_cause" =>
        /\ \A now \in Nows : \A i \in DOMAIN errors :
              LET score == _calculate_root_cause_score(errors[i], errors, now)
                  time_part == score.num - FixedScore(errors[i]) * score.den
              IN  /\ score.den > 0
                  /\ 0 <= time_part /\ time_part <= 50 * score.den
                  /\ score.num >= 0
        /\ errors = <<ErrorDict("db", <<"connection", " ", "refused">>, "error", PyStr(T0), {}),
                      ErrorDict("api", <<"request", " ", "failed">>, "error", PyStr(T30), {})>>
              => result = Value(<<errors[1]>>)

-----------------------------------------------------------------------------
(* LogAnalyzer.detect_patterns and detect_anomalies on batches of their own *)

MaxPatternLogs == 5

\* Two messages that differ in a number only, and two others.
PatternMessages ==
    { <<"user", " ", "42", " ", "failed">>,
      <<"user", " ", "7", " ", "failed">>,
      <<"connection", " ", "refused">>,
      <<"request", " ", "failed">> }

PatternLogs == { ErrorDict("api", m, "error", PyStr(T0), {}) : m \in PatternMessages }

MaxBurst == 7

\* The minutes after the first one, each with one error or none.
QuietStamps ==
    <<"2024-01-01T00:01:00", T120, "2024-01-01T00:03:00", "2024-01-01T00:04:00",
      "2024-01-01T00:05:00", "2024-01-01T00:06:00">>

\* n errors of the first minute, by turns error at 0 s and critical at 30 s.
Burst(n) ==
    [i \in 1..n |->
        IF i % 2 = 1
        THEN ErrorDict("db", <<"connection", " ", "refused">>, "error", PyStr(T0), {})
        ELSE ErrorDict("db", <<"connection", " ", "refused">>, "critical", PyStr(T30), {})]

\* One error in each of the chosen later minutes, in the order of time.
Quiet(chosen) ==
    LET stamps == SelectSeq(QuietStamps, LAMBDA t : t \in chosen)
    IN  [i \in DOMAIN stamps |->
            ErrorDict("api", <<"request", " ", "failed">>, "error", PyStr(stamps[i]), {})]

\* A log file with a burst of errors in its first minute: an error without
\* timestamp and an info line of the first minute may come with it.
SpikeLogs ==
    { (IF untimed THEN <<ErrorDict("api", <<"request", " ", "failed">>, "error", PyNone, {})>>
       ELSE <<>>)
      \o (IF info THEN <<ErrorDict("api", <<"request", " ", "failed">>, "info", PyStr(T0), {})>>
          ELSE <<>>)
      \o Burst(n) \o Quiet(chosen) :
        untimed \in BOOLEAN, info \in BOOLEAN, n \in 0..MaxBurst,
        chosen \in SUBSET Range(QuietStamps) }

InitAnalyzer ==
    /\ errors \in SeqsUpTo(PatternLogs, MaxPatternLogs) \cup SpikeLogs
    /\ call = "none"
    /\ result = NoResult
    /\ EngineIdle
    /\ AuxIdle

\* LogAnalyzer().detect_patterns(logs)
DetectPatterns ==
    /\ call = "none"
    /\ result' = Value(detect_patterns(errors))
    /\ call' = "detect_patterns"
    /\ UNCHANGED <<errors, parserVars, engineVars, auxVars>>

\* LogAnalyzer().detect_anomalies(logs)
DetectAnomalies ==
    /\ call = "none"
    /\ result' = Value(detect_anomalies(errors))
    /\ call' = "detect_anomalies"
    /\ UNCHANGED <<errors, parserVars, engineVars, auxVars>>

NextAnalyzer ==
    \/ DetectPatterns
    \/ DetectAnomalies

SpecAnalyzer == InitAnalyzer /\ [][NextAnalyzer]_vars

\* The positions of the logs whose message has the template.
WithTemplate(tpl) ==
    { i \in DOMAIN errors : _normalize_message(errors[i].message) = tpl }

\* The first n positions of a set of positions, in ascending order.
RECURSIVE FirstOf(_, _)
FirstOf(S, n) ==
    IF n = 0 \/ S = {} THEN <<>>
    ELSE <<MinOf(S)>> \o FirstOf(S \ {MinOf(S)}, n - 1)

Counted ==
    { i \in DOMAIN errors :
        /\ Truthy(Get(errors[i].timestamp, PyNone))
        /\ errors[i].level \in {"error", "critical"} }

CountedIn(minute) == { i \in Counted : Minute(errors[i].timestamp.s) = minute }

\* C25: detect_anomalies reports a minute, once, as an error_spike of
\* severity high with its count exactly if the number of its error and
\* critical entries exceeds three times the mean over the minutes that have
\* such entries; entries without timestamp count for no minute.
C25_SpikeAboveThreeTimesMean ==
    call = "detect_anomalies" =>
        LET minutes == { Minute(errors[i].timestamp.s) : i \in Counted }
            spike(m) == Cardinality(CountedIn(m)) * Cardinality(minutes)
                            > 3 * Cardinality(Counted)
        IN  /\ result.kind = "value"
            /\ \A k \in DOMAIN result.v :
                  /\ result.v[k].type = "error_spike"
                  /\ result.v[k].severity = "high"
                  /\ result.v[k].time \in minutes
                  /\ spike(result.v[k].time)
                  /\ result.v[k].count = Cardinality(CountedIn(result.v[k].time))
                  /\ \A l \in DOMAIN result.v : result.v[l].time = result.v[k].time => l = k
            /\ \A m \in minutes :
                  spike(m) => \E k \in DOMAIN result.v : result.v[k].time = m

\* A spike is reported for a file that also has an error without timestamp
\* and an info line in the minute of the spike.
C25_Witness ==
    /\ call = "detect_anomalies"
    /\ Len(result.v) = 1
    /\ \E i \in DOMAIN errors : errors[i].timestamp = PyNone
    /\ \E i \in DOMAIN errors :
          /\ errors[i].level = "info"
          /\ Truthy(errors[i].timestamp)
          /\ Minute(errors[i].timestamp.s) = result.v[1].time

-----------------------------------------------------------------------------
(* Database events and TimelineBuilder.trace_crash *)

MaxEvents == 3

\* A run of 50 characters, the length of the prefix trace_crash compares
P50 == "xxxxxxxxxxxxxxxxxxxxxxxxxxxxxxxxxxxxxxxxxxxxxxxxxx"

\* A message the caller left out: event.get("message") is None, NULL in
\* the table.
NullMessage == <<"None">>

\* The row that save_event writes; metadata is stored as json.dumps of it.
EventRow(event_id, service, message, timestamp, metadata) ==
    [event_id |-> event_id, type |-> "log", level |-> "error", service |-> service,
     message |-> message, timestamp |-> timestamp, metadata |-> metadata]

EventContents ==
    { <<"db", <<"connection", " ", "refused">>, PyStr(T0), {}>>,
      <<"db", <<"connection", " ", "refused">>, PyStr(T30), {}>>,
      <<"db", <<P50, "a">>, PyStr(T120), {}>>,
      <<"db", <<P50, "b">>, PyStr(T30), {}>>,
      <<"api", <<"request", " ", "failed">>, PyStr(T30), {<<"trace_id", <<"abc">>>>}>>,
      <<"api", <<"connection", " ", "refused">>, PyStr(T0), {<<"trace_id", <<"ABC">>>>}>>,
      <<"api", <<P50, "a">>, PyNone, {<<"trace_id", <<"abc">>>>}>>,
      <<"db", NullMessage, PyStr(T30), {}>> }

EventIds == {"e1", "e2", "e3"}

\* Database.save_event: INSERT OR REPLACE removes the row that has the
\* event_id and adds the new row at the end.
save_event(table, event) ==
    Append(SelectSeq(table, LAMBDA row : row.event_id # event.event_id), event)

\* ORDER BY timestamp: NULL first, rows with one timestamp in rowid order
OrderByTimestamp(rows) ==
    LET order == SortPositions(
                    [i \in DOMAIN rows |->
                        IF rows[i].timestamp.kind = "None" THEN 0 - 1
                        ELSE StrRank(rows[i].timestamp.s)],
                    Len(rows))
    IN  [k \in DOMAIN order |-> rows[order[k]]]

\* The seconds of a timedelta
TotalSeconds(td) == td.days * 86400 + td.seconds

\* Database.get_events_before: timestamp >= start_time.isoformat() AND
\* timestamp <= timestamp AND service = service; a NULL timestamp
\* compares as no row.
get_events_before(table, timestamp, td, service) ==
    IF ~FromIsoOk(timestamp) THEN <<>>
    ELSE LET end_time == _parse_timestamp(timestamp, 0)
             start_time == end_time - TotalSeconds(td)
         IN  OrderByTimestamp(SelectSeq(table, LAMBDA row :
                /\ row.timestamp.kind = "str"
                /\ start_time <= _parse_timestamp(row.timestamp.s, 0)
                /\ _parse_timestamp(row.timestamp.s, 0) <= end_time
                /\ (service # "" => row.service = service)))

\* The ASCII letters of a trace id folded as LIKE folds them.
LikeFold(id) == IF id = <<"ABC">> THEN <<"abc">> ELSE id

\* metadata LIKE '%"trace_id": "<trace_id>"%'
get_events_by_trace(table, trace_id) ==
    OrderByTimestamp(SelectSeq(table, LAMBDA row :
        /\ MetaGet(row, "trace_id") # <<>>
        /\ LikeFold(MetaGet(row, "trace_id")) = LikeFold(trace_id)))

\* message[:50]
Prefix50(m) == IF m # <<>> /\ m[1] = P50 THEN <<P50>> ELSE m

\* event.get("error_id") or event.get("message", "")[:50]: a row of the
\* events table has no error_id column.
EventKey(event) == Prefix50(event.message)

\* The events whose key was not seen before, in their order.
RECURSIVE Unique(_)
Unique(events) ==
    IF events = <<>> THEN <<>>
    ELSE LET front == Unique(SubSeq(events, 1, Len(events) - 1))
             event == events[Len(events)]
         IN  IF \E k \in DOMAIN front : EventKey(front[k]) = EventKey(event)
             THEN front ELSE Append(front, event)

\* TimelineBuilder.trace_crash
trace_crash(table, error, before) ==
    IF ~Truthy(Get(error.timestamp, PyNone)) THEN Value(<<>>)
    ELSE LET time_delta == _parse_time_delta(before)
             trace_id == MetaGet(error, "trace_id")
             events == get_events_before(table, error.timestamp.s, time_delta.v,
                                         error.service)
                         \o (IF trace_id # <<>> THEN get_events_by_trace(table, trace_id)
                             ELSE <<>>)
             unique_events == Unique(events)
             order == SortedByTimestamp(unique_events)
         IN  IF time_delta.kind = "raise" THEN time_delta
             ELSE IF \E k \in DOMAIN events : events[k].message = NullMessage
                  THEN Raises("TypeError")
             ELSE IF SortRaises([k \in DOMAIN unique_events |-> unique_events[k].timestamp])
                  THEN Raises("TypeError")
             ELSE Value([k \in DOMAIN order |-> unique_events[order[k]]])

CrashErrors ==
    { ErrorDict(service, <<"request", " ", "failed">>, "error", timestamp, metadata) :
        service \in {"db", "api"},
        timestamp \in {PyNone, PyStr(T120)},
        metadata \in {{}, {<<"trace_id", <<"abc">>>>}} }

Befores == {<<"5", "m">>, <<"90", "s">>}

InitCrash ==
    /\ db_events = <<>>
    /\ crash = NoResult
    /\ traced = NoResult
    /\ StreamIdle
    /\ NormIdle /\ DeltaIdle /\ IngestIdle /\ ThreadsIdle
    /\ EngineIdle
    /\ BatchIdle

\* Database().save_event(event)
SaveEvent ==
    /\ traced = NoResult
    /\ Len(db_events) < MaxEvents
    /\ \E id \in EventIds, c \in EventContents :
          db_events' = save_event(db_events, EventRow(id, c[1], c[2], c[3], c[4]))
    /\ UNCHANGED <<crash, traced, streamVars, normVars, deltaVars, ingestVars,
                   threadVars, parserVars, engineVars, batchVars>>

\* TimelineBuilder().trace_crash(error, before)
TraceCrash ==
    /\ traced = NoResult
    /\ \E error \in CrashErrors, before \in Befores :
          /\ crash' = error
          /\ traced' = trace_crash(db_events, error, before)
    /\ UNCHANGED <<db_events, streamVars, normVars, deltaVars, ingestVars,
                   threadVars, parserVars, engineVars, batchVars>>

NextCrash ==
    \/ SaveEvent
    \/ TraceCrash

SpecCrash == InitCrash /\ [][NextCrash]_vars

\* The lookback of the error in seconds, and whether a row is an event of
\* the service of the error within it.
InLookback(row, before) ==
    /\ row.service = crash.service
    /\ row.timestamp.kind = "str"
    /\ LET at == _parse_timestamp(row.timestamp.s, 0)
           end == _parse_timestamp(crash.timestamp.s, 0)
       IN  end - TotalSeconds(_parse_time_delta(before).v) <= at /\ at <= end

SharesTrace(row) ==
    /\ MetaGet(crash, "trace_id") # <<>>
    /\ MetaGet(row, "trace_id") = MetaGet(crash, "trace_id")

\* C26: for an error with a timestamp trace_crash returns events of its own
\* service within the lookback and events with its trace id and no others,
\* one for every key among them, no two with one key, in ascending order of
\* their timestamps.
C26_TraceCrashEvents ==
    traced # NoResult /\ Truthy(Get(crash.timestamp, PyNone)) =>
        /\ traced.kind = "value"
        /\ \E before \in Befores :
              LET wanted == { i \in DOMAIN db_events :
                                InLookback(db_events[i], before) \/ SharesTrace(db_events[i]) }
              IN  /\ \A k \in DOMAIN traced.v :
                        \E i \in wanted : traced.v[k] = db_events[i]
                  /\ \A i \in wanted :
                        \E k \in DOMAIN traced.v :
                            EventKey(traced.v[k]) = EventKey(db_events[i])
                  /\ \A k, l \in DOMAIN traced.v :
                        k # l => EventKey(traced.v[k]) # EventKey(traced.v[l])
                  /\ \A k \in 1..(Len(traced.v) - 1) :
                        /\ traced.v[k].timestamp.kind = "str"
                        /\ traced.v[k + 1].timestamp.kind = "str"
                        /\ StrRank(traced.v[k].timestamp.s)
                             <= StrRank(traced.v[k + 1].timestamp.s)

-----------------------------------------------------------------------------
(* Claims about the incident timeline. *)

\* The positions of the errors of the batch that have a timestamp.
Timestamped == { i \in DOMAIN errors : Truthy(Get(errors[i].timestamp, PyNone)) }

\* C27: of a batch with a timestamped error build_incident_timeline returns
\* one event for every error, in the order of their timestamps, the
\* smallest timestamp as start and the largest as end, and an analysis with
\* the number of events, the number of error events, the earliest error
\* event, the services, and cascade_detected exactly if there are several
\* services.
C27_IncidentTimelineSummary ==
    call = "build_incident_timeline" /\ Timestamped # {} =>
        /\ result.kind = "value"
        /\ LET events == result.v.events
               analysis == result.v.analysis
               error_events == { k \in DOMAIN events : events[k].level \in {"error", "critical"} }
           IN  /\ Len(events) = Len(errors)
               /\ \E perm \in [DOMAIN errors -> DOMAIN errors] :
                     /\ \A i, j \in DOMAIN errors : i # j => perm[i] # perm[j]
                     /\ \A k \in DOMAIN events : events[k] = TimelineEvent(errors[perm[k]])
               /\ \A k \in 1..(Len(events) - 1) :
                     StrRank(Get(events[k].timestamp, PyStr("")).s)
                        <= StrRank(Get(events[k + 1].timestamp, PyStr("")).s)
               /\ \A i \in Timestamped :
                     /\ StrRank(result.v.start) <= StrRank(errors[i].timestamp.s)
                     /\ StrRank(errors[i].timestamp.s) <= StrRank(result.v.end)
               /\ \E i, j \in Timestamped :
                     result.v.start = errors[i].timestamp.s /\ result.v.end = errors[j].timestamp.s
               /\ analysis.total_events = Len(errors)
               /\ analysis.error_count = Cardinality(error_events)
               /\ analysis.first_error
                     = (IF error_events = {} THEN <<>> ELSE <<events[MinOf(error_events)]>>)
               /\ analysis.services_affected = { errors[i].service : i \in DOMAIN errors }
               /\ analysis.cascade_detected
                     <=> Cardinality({ errors[i].service : i \in DOMAIN errors }) > 1

-----------------------------------------------------------------------------
(* Claims about what correlate does to its input. *)

-----------------------------------------------------------------------------
(* Claims about the groups of group_related. *)

\* The positions that a chain of related errors connects with one of S.
RECURSIVE Connected(_, _)
Connected(S, now) ==
    LET T == S \cup { j \in DOMAIN errors :
                        \E i \in S : \/ _are_related(errors[i], errors[j], now)
                                     \/ _are_related(errors[j], errors[i], now) }
    IN  IF T = S THEN S ELSE Connected(T, now)

RECURSIVE SumOfSizes(_)
SumOfSizes(groups) ==
    IF groups = <<>> THEN 0 ELSE Len(Head(groups)) + SumOfSizes(Tail(groups))

\* C29: the groups of group_related are a partition of the batch: every
\* error is once in one group, no group is empty, the sizes add up to the
\* size of the batch, and two errors are in one group exactly if a chain of
\* related errors connects them.
C29_GroupsAreConnectedComponents ==
    call = "group_related" =>
        /\ result.kind = "value"
        /\ \A g \in DOMAIN result.v : result.v[g] # <<>>
        /\ SumOfSizes(result.v) = Len(errors)
        /\ \A i \in DOMAIN errors :
              Cardinality({ <<g, k>> \in (DOMAIN result.v) \X (1..Len(errors)) :
                              /\ k \in DOMAIN result.v[g]
                              /\ result.v[g][k] = [pos |-> i, error |-> errors[i]] }) = 1
        /\ \E now \in Nows :
              \A i, j \in DOMAIN errors :
                  (\E g \in DOMAIN result.v : {i, j} \subseteq Members(result.v[g]))
                    <=> j \in Connected({i}, now)

\* Three errors are one group although the second and the third are not
\* related: the first is related to both.
C29_Witness ==
    /\ call = "group_related"
    /\ Len(errors) = 3
    /\ Len(result.v) = 1
    /\ \A now \in Nows :
          /\ ~_are_related(errors[2], errors[3], now)
          /\ _are_related(errors[1], errors[2], now)
          /\ _are_related(errors[1], errors[3], now)

-----------------------------------------------------------------------------
(* The generators FileIngester.ingest_streaming and                        *)
(* StreamIngester._stream_stdin, one step for every line they read.        *)

MaxStreamLines == 4
MaxBatchSize == 3

\* A batch that is yielded one entry late.
OverFull(batch, size) == Len(batch) > size

\* if len(batch) >= batch_size
BatchFull(batch, size) == Len(batch) >= size

StreamSources ==
    { [adapter |-> a, state |-> st, content |-> c, levels |-> {}] :
        a \in {"file_ingest_streaming", "stream_stdin"},
        st \in {"ok", "missing"},
        c \in SeqsUpTo(IngestLines, MaxStreamLines) }

InitStream ==
    /\ source \in { src \in StreamSources :
                      src.state = "missing" =>
                          src.adapter = "file_ingest_streaming" /\ src.content = <<>> }
    /\ ingested = NoResult
    /\ batch_size \in 1..MaxBatchSize
    /\ pending = source.content
    /\ buffer = <<>>
    /\ batches = <<>>
    /\ exhausted = FALSE
    /\ CrashIdle
    /\ NormIdle /\ DeltaIdle /\ ThreadsIdle
    /\ EngineIdle
    /\ BatchIdle

streamFrame ==
    <<batch_size, ingestVars, crashVars, normVars, deltaVars, threadVars,
      parserVars, engineVars, batchVars>>

\* The batch is yielded and a new one begun if it is full, and kept if not.
YieldIfFull(batch) ==
    IF BatchFull(batch, batch_size)
    THEN buffer' = <<>> /\ batches' = Append(batches, batch)
    ELSE buffer' = batch /\ UNCHANGED batches

\* ingest_streaming reads a line of the file: _iter_file passes a blank
\* line over and yields an entry for another one.
FileReadLine ==
    /\ source.adapter = "file_ingest_streaming" /\ source.state = "ok"
    /\ ~exhausted /\ pending # <<>>
    /\ pending' = Tail(pending)
    /\ LET line == Strip(Head(pending))
       IN  IF line = <<>> THEN UNCHANGED <<buffer, batches>>
           ELSE YieldIfFull(Append(buffer, IngestEntry(line, NoKey, NoKey, NoKey, FALSE)))
    /\ UNCHANGED <<exhausted, streamFrame>>

\* The file cannot be opened: _iter_file yields the entry of the error and
\* ends, and ingest_streaming yields it as a batch and returns.
FileOpenFails ==
    /\ source.adapter = "file_ingest_streaming" /\ source.state = "missing"
    /\ ~exhausted
    /\ batches' = << _iter_file(source) >>
    /\ exhausted' = TRUE
    /\ UNCHANGED <<pending, buffer, streamFrame>>

\* The file has ended: if batch: yield batch, and the generator returns.
FileEnds ==
    /\ source.adapter = "file_ingest_streaming" /\ source.state = "ok"
    /\ ~exhausted /\ pending = <<>>
    /\ batches' = IF buffer # <<>> THEN Append(batches, buffer) ELSE batches
    /\ buffer' = <<>>
    /\ exhausted' = TRUE
    /\ UNCHANGED <<pending, streamFrame>>

\* _stream_stdin reads a line: the test of the buffer follows every line,
\* a blank one too.
StdinReadLine ==
    /\ source.adapter = "stream_stdin"
    /\ ~exhausted /\ pending # <<>>
    /\ pending' = Tail(pending)
    /\ LET line == Strip(Head(pending))
           batch == IF line = <<>> THEN buffer ELSE Append(buffer, _parse_line(line))
       IN  YieldIfFull(batch)
    /\ UNCHANGED <<exhausted, streamFrame>>

\* stdin has ended, or a KeyboardInterrupt ended the loop before that:
\* if buffer: yield buffer, and the generator returns.
StdinEnds ==
    /\ source.adapter = "stream_stdin"
    /\ ~exhausted
    /\ batches' = IF buffer # <<>> THEN Append(batches, buffer) ELSE batches
    /\ buffer' = <<>>
    /\ exhausted' = TRUE
    /\ UNCHANGED <<pending, streamFrame>>

NextStream ==
    \/ FileReadLine
    \/ FileOpenFails
    \/ FileEnds
    \/ StdinReadLine
    \/ StdinEnds

\* The consumer keeps asking the generator for its next batch.
SpecStream == InitStream /\ [][NextStream]_vars /\ WF_vars(NextStream)

\* The entries of the batches one after the other.
RECURSIVE Flatten(_)
Flatten(bs) == IF bs = <<>> THEN <<>> ELSE Head(bs) \o Flatten(Tail(bs))

\* The lines of the source read so far.
LinesRead == SubSeq(source.content, 1, Len(source.content) - Len(pending))

\* The batches of a readable source at any moment: none is empty or larger
\* than batch_size, only the last one of a generator that has returned is
\* smaller, and the entries yielded and buffered are the lines read so far
\* that are not blank, in their order.
BatchesInOrder ==
    source # NoResult /\ batch_size >= 1 /\ source.state = "ok" =>
        /\ \A b \in DOMAIN batches :
              /\ batches[b] # <<>>
              /\ Len(batches[b]) <= batch_size
              /\ Len(batches[b]) < batch_size => b = Len(batches) /\ exhausted
        /\ LET entries == Flatten(batches) \o buffer
           IN  [k \in DOMAIN entries |-> entries[k].raw] = StrippedLines(LinesRead)
        /\ exhausted => buffer = <<>>

\* C30: with a batch size of at least 1 the batches that ingest_streaming
\* and _stream_stdin yield are never empty and never larger than the batch
\* size, all but the last have that size, together they are the lines of
\* the input that are not blank, in their order, and once the input has
\* ended the generator returns.
C30_BatchesCoverInput ==
    /\ []BatchesInOrder
    /\ (source # NoResult /\ pending = <<>>) ~> exhausted

\* stdin with a blank line has ended: a full batch of two and a last one of
\* one were yielded.
C30_Witness ==
    /\ source # NoResult /\ source.adapter = "stream_stdin"
    /\ exhausted /\ pending = <<>>
    /\ batch_size = 2
    /\ Len(batches) = 2 /\ Len(batches[1]) = 2 /\ Len(batches[2]) = 1
    /\ \E i \in DOMAIN source.content : Strip(source.content[i]) = <<>>

=============================================================================
